---- MODULE Spec2Model ----
(***************************************************************************)
(* Racing and sports catalogs: the request pipeline of the two services    *)
(* (context check, request validation, repository call), the query         *)
(* construction of the two repositories (applyFilter, applySorting), the   *)
(* execution of the compiled statement over the stored table, and the row  *)
(* scan that builds the records of the response.                           *)
(*                                                                         *)
(* A Go string is a sequence of one-character strings, so that             *)
(* concatenation, strings.Repeat, strings.Join, strings.Contains and       *)
(* strings.TrimSpace are computed and not assumed.  A Go pointer or an     *)
(* optional field is <<>> (nil) or <<v>>.  An error is <<>> (nil) or the   *)
(* sequence of its message layers, outermost first: fmt.Errorf("p: %w", e) *)
(* puts the layer "p: " in front of e, Unwrap drops the first layer and    *)
(* Error() is the concatenation of the layers.                             *)
(***************************************************************************)
EXTENDS Integers, Sequences, FiniteSets, TLC

(***************************************************************************)
(* Bounds of the model.                                                    *)
(***************************************************************************)
\* longest category-id list enumerated element by element
MaxIds == 2
\* most rows of a stored table
MaxRows == 2
\* last instant of the clock
MaxTime == 2
\* goroutines that call Validate or Init at the same time
MaxCallers == 2

(***************************************************************************)
(* Program constants.                                                      *)
(***************************************************************************)
MaxMeetingIDs == 100
MaxMeetingID == 999999
MaxSportTypes == 50
MaxSportTypeLength == 100

(***************************************************************************)
(* String literals of the source, by file.                                 *)
(***************************************************************************)
\* Messages of the handlers of racingService (those of the context and nil-request checks are the same in sportsService).
SvcRacingText ==
    [ctxNil |-> <<"c","o","n","t","e","x","t"," ","c","a","n","n","o","t"," ","b","e"," ","n"
         ,"i","l">>,
     reqCancelled |-> <<"r","e","q","u","e","s","t"," ","c","a","n","c","e","l","l","e","d"
         ,":"," ">>,
     reqNil |-> <<"r","e","q","u","e","s","t"," ","c","a","n","n","o","t"," ","b","e"," ","n"
         ,"i","l">>,
     validationFailed |-> <<"v","a","l","i","d","a","t","i","o","n"," ","f","a","i","l","e"
         ,"d",":"," ">>,
     failedRaces |-> <<"f","a","i","l","e","d"," ","t","o"," ","r","e","t","r","i","e","v","e"
         ," ","r","a","c","e","s",":"," ">>,
     failedRace |-> <<"f","a","i","l","e","d"," ","t","o"," ","r","e","t","r","i","e","v","e"
         ," ","r","a","c","e",":"," ">>,
     raceIdPositive |-> <<"r","a","c","e"," ","I","D"," ","m","u","s","t"," ","b","e"," ","g"
         ,"r","e","a","t","e","r"," ","t","h","a","n"," ","0">>]

\* Messages of the handlers of sportsService.
SvcSportsText ==
    [failedEvents |-> <<"f","a","i","l","e","d"," ","t","o"," ","r","e","t","r","i","e","v"
         ,"e"," ","e","v","e","n","t","s",":"," ">>,
     failedEvent |-> <<"f","a","i","l","e","d"," ","t","o"," ","r","e","t","r","i","e","v","e"
         ," ","e","v","e","n","t",":"," ">>,
     eventIdPositive |-> <<"e","v","e","n","t"," ","I","D"," ","m","u","s","t"," ","b","e"," "
         ,"g","r","e","a","t","e","r"," ","t","h","a","n"," ","0">>]

\* Messages of the errors of context and database/sql.
LibText ==
    [ctxCanceled |-> <<"c","o","n","t","e","x","t"," ","c","a","n","c","e","l","e","d">>,
     dbClosed |-> <<"s","q","l",":"," ","d","a","t","a","b","a","s","e"," ","i","s"," ","c"
         ,"l","o","s","e","d">>,
     ioError |-> <<"d","i","s","k"," ","I","/","O"," ","e","r","r","o","r">>,
     scanError |-> <<"s","q","l",":"," ","S","c","a","n"," ","e","r","r","o","r"," ","o","n"," ","c","o","l","u","m","n"," ","i","n","d","e","x"," ","0">>,
     syntaxError |-> <<"S","Q","L"," ","l","o","g","i","c"," ","e","r","r","o","r">>,
     bindError |-> <<"s","q","l",":"," ","w","r","o","n","g"," ","n","u","m","b","e","r"," "
         ,"o","f"," ","a","r","g","u","m","e","n","t","s">>]

\* Messages of the validation of racing requests.
RacingValText ==
    [meetingIdsFailed |-> <<"m","e","e","t","i","n","g","_","i","d","s"," ","v","a","l","i"
         ,"d","a","t","i","o","n"," ","f","a","i","l","e","d",":"," ">>,
     visibleOnlyFailed |-> <<"v","i","s","i","b","l","e","_","o","n","l","y"," ","v","a","l"
         ,"i","d","a","t","i","o","n"," ","f","a","i","l","e","d",":"," ">>,
     tooMany |-> <<"t","o","o"," ","m","a","n","y"," ","m","e","e","t","i","n","g"," ","I","D"
         ,"s",":"," ","g","o","t"," ">>,
     maxAllowed |-> <<","," ","m","a","x"," ","a","l","l","o","w","e","d"," ">>,
     invalidAt |-> <<"i","n","v","a","l","i","d"," ","m","e","e","t","i","n","g"," ","I","D"
         ," ","a","t"," ","p","o","s","i","t","i","o","n"," ">>,
     colon |-> <<":"," ">>,
     mustBePositive |-> <<" ","(","m","u","s","t"," ","b","e"," ","p","o","s","i","t","i","v"
         ,"e",")">>,
     tooLargeAt |-> <<"m","e","e","t","i","n","g"," ","I","D"," ","t","o","o"," ","l","a","r"
         ,"g","e"," ","a","t"," ","p","o","s","i","t","i","o","n"," ">>,
     maxOpen |-> <<" ","(","m","a","x",":"," ">>,
     close |-> <<")">>,
     duplicate |-> <<"d","u","p","l","i","c","a","t","e"," ","m","e","e","t","i","n","g"," "
         ,"I","D",":"," ">>]

\* Messages of the validation of sports requests.
SportsValText ==
    [sportTypesFailed |-> <<"s","p","o","r","t","_","t","y","p","e","s"," ","v","a","l","i"
         ,"d","a","t","i","o","n"," ","f","a","i","l","e","d",":"," ">>,
     visibleOnlyFailed |-> <<"v","i","s","i","b","l","e","_","o","n","l","y"," ","v","a","l"
         ,"i","d","a","t","i","o","n"," ","f","a","i","l","e","d",":"," ">>,
     sortingFailed |-> <<"s","o","r","t","i","n","g"," ","v","a","l","i","d","a","t","i","o"
         ,"n"," ","f","a","i","l","e","d",":"," ">>,
     tooMany |-> <<"t","o","o"," ","m","a","n","y"," ","s","p","o","r","t"," ","t","y","p","e"
         ,"s",":"," ","g","o","t"," ">>,
     maxAllowed |-> <<","," ","m","a","x"," ","a","l","l","o","w","e","d"," ">>,
     emptyAt |-> <<"e","m","p","t","y"," ","s","p","o","r","t"," ","t","y","p","e"," ","a","t"
         ," ","p","o","s","i","t","i","o","n"," ">>,
     tooLongAt |-> <<"s","p","o","r","t"," ","t","y","p","e"," ","t","o","o"," ","l","o","n"
         ,"g"," ","a","t"," ","p","o","s","i","t","i","o","n"," ">>,
     colon |-> <<":"," ">>,
     characters |-> <<" ","c","h","a","r","a","c","t","e","r","s"," ","(","m","a","x",":"," ">>,
     close |-> <<")">>,
     duplicate |-> <<"d","u","p","l","i","c","a","t","e"," ","s","p","o","r","t"," ","t","y"
         ,"p","e",":"," ">>,
     invalidSortField |-> <<"i","n","v","a","l","i","d"," ","s","o","r","t"," ","f","i","e"
         ,"l","d",":"," ">>,
     invalidSortDirection |-> <<"i","n","v","a","l","i","d"," ","s","o","r","t"," ","d","i"
         ,"r","e","c","t","i","o","n",":"," ">>,
     invalidEventId |-> <<"i","n","v","a","l","i","d"," ","e","v","e","n","t"," ","I","D",":"
         ," ">>,
     mustBePositive |-> <<" ","(","m","u","s","t"," ","b","e"," ","p","o","s","i","t","i","v"
         ,"e",")">>]

\* Fragments of the statements applyFilter and applySorting build (the same in racesRepo and eventsRepo but for the category column).
QueryText ==
    [where |-> <<" ","W","H","E","R","E"," ">>,
     and |-> <<" ","A","N","D"," ">>,
     visible |-> <<"v","i","s","i","b","l","e"," ","="," ","1">>,
     meetingIn |-> <<"m","e","e","t","i","n","g","_","i","d"," ","I","N"," ","(">>,
     sportIn |-> <<"s","p","o","r","t","_","t","y","p","e"," ","I","N"," ","(">>,
     qComma |-> <<"?",",">>,
     q |-> <<"?">>,
     close |-> <<")">>,
     orderBy |-> <<" ","O","R","D","E","R"," ","B","Y"," ">>,
     name |-> <<"n","a","m","e">>,
     number |-> <<"n","u","m","b","e","r">>,
     sport_type |-> <<"s","p","o","r","t","_","t","y","p","e">>,
     advertised |-> <<"a","d","v","e","r","t","i","s","e","d","_","s","t","a","r","t","_","t"
         ,"i","m","e">>,
     space |-> <<" ">>,
     asc |-> <<"A","S","C">>,
     desc |-> <<"D","E","S","C">>]

\* Message of eventsRepo.GetByID for an absent row.
EventsGetText ==
    [eventWithId |-> <<"e","v","e","n","t"," ","w","i","t","h"," ","I","D"," ">>,
     notFound |-> <<" ","n","o","t"," ","f","o","u","n","d">>]

\* Statement and message of racesRepo.GetByID.
RacesGetText ==
    [raceWithId |-> <<"r","a","c","e"," ","w","i","t","h"," ","I","D"," ">>,
     notFound |-> <<" ","n","o","t"," ","f","o","u","n","d">>,
     whereId |-> <<" ","W","H","E","R","E"," ","i","d"," ","="," ","?">>]

\* getRaceQueries()[racesList]: the base statement of the list of races
racesListQuery ==
    <<"S","E","L","E","C","T"," ","*"," ","F","R","O","M"," ","r","a","c","e","s">>

\* getEventQueries()[eventsList]
eventsListQuery ==
    <<"\n","\t","\t","\t","S","E","L","E","C","T"," ","\n","\t","\t","\t","\t","i","d",","," "
      ,"\n","\t","\t","\t","\t","n","a","m","e",","," ","\n","\t","\t","\t","\t","a","d","v","e"
      ,"r","t","i","s","e","d","_","s","t","a","r","t","_","t","i","m","e",",","\n","\t","\t"
      ,"\t","\t","s","p","o","r","t","_","t","y","p","e",",","\n","\t","\t","\t","\t","v","e"
      ,"n","u","e",",","\n","\t","\t","\t","\t","v","i","s","i","b","l","e","\n","\t","\t","\t"
      ,"F","R","O","M"," ","e","v","e","n","t","s","\n","\t","\t">>

\* getEventQueries()[eventsGetByID]
eventsGetByIDQuery ==
    <<"\n","\t","\t","\t","S","E","L","E","C","T"," ","\n","\t","\t","\t","\t","i","d",","," "
      ,"\n","\t","\t","\t","\t","n","a","m","e",","," ","\n","\t","\t","\t","\t","a","d","v","e"
      ,"r","t","i","s","e","d","_","s","t","a","r","t","_","t","i","m","e",",","\n","\t","\t"
      ,"\t","\t","s","p","o","r","t","_","t","y","p","e",",","\n","\t","\t","\t","\t","v","e"
      ,"n","u","e",",","\n","\t","\t","\t","\t","v","i","s","i","b","l","e","\n","\t","\t","\t"
      ,"F","R","O","M"," ","e","v","e","n","t","s"," ","\n","\t","\t","\t","W","H","E","R","E"
      ," ","i","d"," ","="," ","?","\n","\t","\t">>
(***************************************************************************)
(* Strings, optional values and errors.                                    *)
(***************************************************************************)
\* a nil pointer, an absent optional field, a nil error, a nil slice
Nil == <<>>

\* a non-nil pointer to v, an optional field holding v
Some(v) == <<v>>

\* strings.Repeat(s, n)
RECURSIVE Repeat(_, _)
Repeat(s, n) == IF n <= 0 THEN <<>> ELSE s \o Repeat(s, n - 1)

\* strings.Join(elems, sep)
RECURSIVE Join(_, _)
Join(elems, sep) ==
    IF Len(elems) = 0 THEN <<>>
    ELSE IF Len(elems) = 1 THEN elems[1]
    ELSE elems[1] \o sep \o Join(Tail(elems), sep)

\* strings.Contains(s, sub)
Contains(s, sub) ==
    \E i \in 1..(Len(s) - Len(sub) + 1) : SubSeq(s, i, i + Len(sub) - 1) = sub

\* strings.HasSuffix(s, suffix)
HasSuffix(s, suffix) ==
    /\ Len(s) >= Len(suffix)
    /\ SubSeq(s, Len(s) - Len(suffix) + 1, Len(s)) = suffix

\* strings.Count(s, c) for a one-character c
CountChar(s, c) == Cardinality({i \in 1..Len(s) : s[i] = c})

\* the white space strings.TrimSpace removes
IsSpace(c) == c \in {" ", "\t", "\n", "\r", "\f"}

\* strings.TrimSpace(s)
TrimSpace(s) ==
    LET keep == {i \in 1..Len(s) : ~IsSpace(s[i])}
    IN  IF keep = {} THEN <<>>
        ELSE LET lo == CHOOSE i \in keep : \A j \in keep : i <= j
                 hi == CHOOSE i \in keep : \A j \in keep : i >= j
             IN  SubSeq(s, lo, hi)

Digit(d) ==
    CASE d = 0 -> "0" [] d = 1 -> "1" [] d = 2 -> "2" [] d = 3 -> "3" [] d = 4 -> "4"
      [] d = 5 -> "5" [] d = 6 -> "6" [] d = 7 -> "7" [] d = 8 -> "8" [] d = 9 -> "9"

RECURSIVE ItoaNat(_)
ItoaNat(n) == IF n < 10 THEN <<Digit(n)>> ELSE ItoaNat(n \div 10) \o <<Digit(n % 10)>>

\* the %d verb of fmt
Itoa(n) == IF n < 0 THEN <<"-">> \o ItoaNat(0 - n) ELSE ItoaNat(n)

\* fmt.Errorf(msg) without a wrapped error
NewError(msg) == <<msg>>

\* fmt.Errorf(prefix + "%w", err)
Errorf(prefix, err) == <<prefix>> \o err

\* errors.Unwrap(err)
Unwrap(err) == IF Len(err) <= 1 THEN Nil ELSE Tail(err)

\* err.Error()
RECURSIVE ErrorText(_)
ErrorText(err) == IF Len(err) = 0 THEN <<>> ELSE err[1] \o ErrorText(Tail(err))

(***************************************************************************)
(* racing: the list filter and its validation.                             *)
(***************************************************************************)
\* the declared members of racing.SortField and racing.SortDirection
SortField_ADVERTISED_START_TIME == "ADVERTISED_START_TIME"
SortField_NAME == "NAME"
SortField_NUMBER == "NUMBER"
SortField_SPORT_TYPE == "SPORT_TYPE"
SortDirection_ASC == "ASC"
SortDirection_DESC == "DESC"
\* an int32 that is no declared member of the enum (the number 99)
Undeclared == "99"

\* the %v verb of fmt on an enum value that is no declared member: its number
EnumString(v) == <<"9", "9">>

\* checkMeetingId letting the id 0 pass
checkMeetingId_zeroPasses(ids, i) ==
    IF ids[i] < 0
    THEN NewError(RacingValText.invalidAt \o Itoa(i - 1) \o RacingValText.colon \o Itoa(ids[i])
                  \o RacingValText.mustBePositive)
    ELSE IF ids[i] > MaxMeetingID
    THEN NewError(RacingValText.tooLargeAt \o Itoa(i - 1) \o RacingValText.colon \o Itoa(ids[i])
                  \o RacingValText.maxOpen \o Itoa(MaxMeetingID) \o RacingValText.close)
    ELSE IF ids[i] \in {ids[j] : j \in 1..(i - 1)}
    THEN NewError(RacingValText.duplicate \o Itoa(ids[i]))
    ELSE Nil

\* validateMeetingIds: the pass of the loop over f.MeetingIds at (0-based) position
\* i - 1, the passes before it having put ids[1], ..., ids[i - 1] in seen: the error it
\* returns, or Nil when the loop goes on
checkMeetingId(ids, i) ==
    IF ids[i] <= 0
    THEN NewError(RacingValText.invalidAt \o Itoa(i - 1) \o RacingValText.colon \o Itoa(ids[i])
                  \o RacingValText.mustBePositive)
    ELSE IF ids[i] > MaxMeetingID
    THEN NewError(RacingValText.tooLargeAt \o Itoa(i - 1) \o RacingValText.colon \o Itoa(ids[i])
                  \o RacingValText.maxOpen \o Itoa(MaxMeetingID) \o RacingValText.close)
    ELSE IF ids[i] \in {ids[j] : j \in 1..(i - 1)}
    THEN NewError(RacingValText.duplicate \o Itoa(ids[i]))
    ELSE Nil

\* validateMeetingIds: the loop over f.MeetingIds returns in its first pass that finds
\* an error
scanMeetingIds(ids) ==
    LET failing == {i \in 1..Len(ids) : checkMeetingId(ids, i) # Nil}
    IN  IF failing = {} THEN Nil
        ELSE checkMeetingId(ids, CHOOSE i \in failing : \A j \in failing : i <= j)

\* validateMeetingIds counting the ids after it has looked at each of them
validateMeetingIds_countLast(f) ==
    IF scanMeetingIds(f.MeetingIds) # Nil THEN scanMeetingIds(f.MeetingIds)
    ELSE IF Len(f.MeetingIds) > MaxMeetingIDs
    THEN NewError(RacingValText.tooMany \o Itoa(Len(f.MeetingIds)) \o RacingValText.maxAllowed
                  \o Itoa(MaxMeetingIDs))
    ELSE Nil

\* (*ListRacesRequestFilter).validateMeetingIds
validateMeetingIds(f) ==
    IF Len(f.MeetingIds) > MaxMeetingIDs
    THEN NewError(RacingValText.tooMany \o Itoa(Len(f.MeetingIds)) \o RacingValText.maxAllowed
                  \o Itoa(MaxMeetingIDs))
    ELSE scanMeetingIds(f.MeetingIds)

\* (*ListRacesRequestFilter).validateVisibleOnly, (*ListEventsRequestFilter).validateVisibleOnly
validateVisibleOnly(f) == Nil

\* (*ListRacesRequestFilter).Validate
RacesFilter_Validate(f) ==
    IF validateMeetingIds(f) # Nil
    THEN Errorf(RacingValText.meetingIdsFailed, validateMeetingIds(f))
    ELSE IF validateVisibleOnly(f) # Nil
    THEN Errorf(RacingValText.visibleOnlyFailed, validateVisibleOnly(f))
    ELSE Nil

\* (*ListRacesRequest).Validate
ListRacesRequest_Validate(r) ==
    IF r.Filter # Nil THEN RacesFilter_Validate(r.Filter[1]) ELSE Nil

(***************************************************************************)
(* sports: the list filter and its validation.                             *)
(***************************************************************************)
\* checkSportType without the call of strings.TrimSpace
checkSportType_noTrim(types, i) ==
    LET sportType == types[i]
    IN  IF sportType = <<>>
        THEN NewError(SportsValText.emptyAt \o Itoa(i - 1))
        ELSE IF Len(sportType) > MaxSportTypeLength
        THEN NewError(SportsValText.tooLongAt \o Itoa(i - 1) \o SportsValText.colon
                      \o Itoa(Len(sportType)) \o SportsValText.characters
                      \o Itoa(MaxSportTypeLength) \o SportsValText.close)
        ELSE IF sportType \in {types[j] : j \in 1..(i - 1)}
        THEN NewError(SportsValText.duplicate \o sportType)
        ELSE Nil

\* validateSportTypes: the pass of the loop over f.SportTypes at (0-based) position
\* i - 1, the passes before it having put the trimmed types[1], ..., types[i - 1] in
\* seen: the error it returns, or Nil when the loop goes on
checkSportType(types, i) ==
    LET sportType == TrimSpace(types[i])
    IN  IF sportType = <<>>
        THEN NewError(SportsValText.emptyAt \o Itoa(i - 1))
        ELSE IF Len(sportType) > MaxSportTypeLength
        THEN NewError(SportsValText.tooLongAt \o Itoa(i - 1) \o SportsValText.colon
                      \o Itoa(Len(sportType)) \o SportsValText.characters
                      \o Itoa(MaxSportTypeLength) \o SportsValText.close)
        ELSE IF sportType \in {TrimSpace(types[j]) : j \in 1..(i - 1)}
        THEN NewError(SportsValText.duplicate \o sportType)
        ELSE Nil

\* validateSportTypes: the loop over f.SportTypes returns in its first pass that finds
\* an error
scanSportTypes(types) ==
    LET failing == {i \in 1..Len(types) : checkSportType(types, i) # Nil}
    IN  IF failing = {} THEN Nil
        ELSE checkSportType(types, CHOOSE i \in failing : \A j \in failing : i <= j)

\* (*ListEventsRequestFilter).validateSportTypes
validateSportTypes(f) ==
    IF Len(f.SportTypes) > MaxSportTypes
    THEN NewError(SportsValText.tooMany \o Itoa(Len(f.SportTypes)) \o SportsValText.maxAllowed
                  \o Itoa(MaxSportTypes))
    ELSE scanSportTypes(f.SportTypes)

\* validateSorting looking at the sort direction before the sort field
validateSorting_directionFirst(f) ==
    IF /\ f.SortDirection # Nil
       /\ f.SortDirection[1] \notin {SortDirection_ASC, SortDirection_DESC}
    THEN NewError(SportsValText.invalidSortDirection \o EnumString(f.SortDirection[1]))
    ELSE IF /\ f.SortField # Nil
            /\ f.SortField[1] \notin
                 {SortField_ADVERTISED_START_TIME, SortField_NAME, SortField_SPORT_TYPE}
    THEN NewError(SportsValText.invalidSortField \o EnumString(f.SortField[1]))
    ELSE Nil

\* (*ListEventsRequestFilter).validateSorting
validateSorting(f) ==
    IF /\ f.SortField # Nil
       /\ f.SortField[1] \notin
            {SortField_ADVERTISED_START_TIME, SortField_NAME, SortField_SPORT_TYPE}
    THEN NewError(SportsValText.invalidSortField \o EnumString(f.SortField[1]))
    ELSE IF /\ f.SortDirection # Nil
            /\ f.SortDirection[1] \notin {SortDirection_ASC, SortDirection_DESC}
    THEN NewError(SportsValText.invalidSortDirection \o EnumString(f.SortDirection[1]))
    ELSE Nil

\* Validate of the sports filter looking at the sorting before the sport types
EventsFilter_Validate_sortingFirst(f) ==
    IF validateSorting(f) # Nil
    THEN Errorf(SportsValText.sortingFailed, validateSorting(f))
    ELSE IF validateSportTypes(f) # Nil
    THEN Errorf(SportsValText.sportTypesFailed, validateSportTypes(f))
    ELSE IF validateVisibleOnly(f) # Nil
    THEN Errorf(SportsValText.visibleOnlyFailed, validateVisibleOnly(f))
    ELSE Nil

\* (*ListEventsRequestFilter).Validate
EventsFilter_Validate(f) ==
    IF validateSportTypes(f) # Nil
    THEN Errorf(SportsValText.sportTypesFailed, validateSportTypes(f))
    ELSE IF validateVisibleOnly(f) # Nil
    THEN Errorf(SportsValText.visibleOnlyFailed, validateVisibleOnly(f))
    ELSE IF validateSorting(f) # Nil
    THEN Errorf(SportsValText.sortingFailed, validateSorting(f))
    ELSE Nil

\* (*ListEventsRequest).Validate
ListEventsRequest_Validate(r) ==
    IF r.Filter # Nil THEN EventsFilter_Validate(r.Filter[1]) ELSE Nil

\* (*GetEventRequest).Validate
GetEventRequest_Validate(r) ==
    IF r.Id <= 0
    THEN NewError(SportsValText.invalidEventId \o Itoa(r.Id) \o SportsValText.mustBePositive)
    ELSE Nil

(***************************************************************************)
(* The query builders of the two repositories.  filter is Nil or           *)
(* Some(the filter); the result of applyFilter is the pair (query, args).  *)
(***************************************************************************)
\* filterClauses with one placeholder too many in the IN clause
filterClauses_extraPlaceholder(inText, ids, visibleOnly) ==
    (IF Len(ids) > 0
     THEN <<inText \o Repeat(QueryText.qComma, Len(ids)) \o QueryText.q \o QueryText.close>>
     ELSE <<>>)
    \o
    (IF visibleOnly # Nil /\ visibleOnly[1] THEN <<QueryText.visible>> ELSE <<>>)

\* filterClauses with the visibility clause emitted before the IN clause
filterClauses_visibleFirst(inText, ids, visibleOnly) ==
    (IF visibleOnly # Nil /\ visibleOnly[1] THEN <<QueryText.visible>> ELSE <<>>)
    \o
    (IF Len(ids) > 0
     THEN <<inText \o Repeat(QueryText.qComma, Len(ids) - 1) \o QueryText.q \o QueryText.close>>
     ELSE <<>>)

\* the clauses slice of applyFilter, for the IN clause text inText and the id list ids
filterClauses(inText, ids, visibleOnly) ==
    (IF Len(ids) > 0
     THEN <<inText \o Repeat(QueryText.qComma, Len(ids) - 1) \o QueryText.q \o QueryText.close>>
     ELSE <<>>)
    \o
    (IF visibleOnly # Nil /\ visibleOnly[1] THEN <<QueryText.visible>> ELSE <<>>)

\* the body of applyFilter the two repositories share, after the nil check
applyClauses(query, inText, ids, visibleOnly) ==
    [query |-> IF Len(filterClauses(inText, ids, visibleOnly)) > 0
               THEN query \o QueryText.where \o Join(filterClauses(inText, ids, visibleOnly), QueryText.and)
               ELSE query,
     args  |-> ids]

\* applyFilter of racesRepo writing the meeting ids into the statement text
racesRepo_applyFilter_inline(query, filter) ==
    IF filter = Nil \/ Len(filter[1].MeetingIds) = 0
    THEN [query |-> query, args |-> Nil]
    ELSE [query |-> query \o QueryText.where \o QueryText.meetingIn
                    \o Join([i \in 1..Len(filter[1].MeetingIds) |->
                               Itoa(filter[1].MeetingIds[i])], <<",">>)
                    \o QueryText.close,
          args  |-> Nil]

\* (*racesRepo).applyFilter
racesRepo_applyFilter(query, filter) ==
    IF filter = Nil THEN [query |-> query, args |-> Nil]
    ELSE applyClauses(query, QueryText.meetingIn, filter[1].MeetingIds, filter[1].VisibleOnly)

\* applyFilter of eventsRepo taking the nil filter for one that asks for visible events
eventsRepo_applyFilter_nilVisible(query, filter) ==
    IF filter = Nil THEN applyClauses(query, QueryText.sportIn, <<>>, Some(TRUE))
    ELSE applyClauses(query, QueryText.sportIn, filter[1].SportTypes, filter[1].VisibleOnly)

\* (*eventsRepo).applyFilter
eventsRepo_applyFilter(query, filter) ==
    IF filter = Nil THEN [query |-> query, args |-> Nil]
    ELSE applyClauses(query, QueryText.sportIn, filter[1].SportTypes, filter[1].VisibleOnly)

\* sortDirectionText taking every present sort direction for DESC
sortDirectionText_anyIsDesc(filter) ==
    IF filter # Nil /\ filter[1].SortDirection # Nil THEN QueryText.desc ELSE QueryText.asc

\* the sort direction both applySorting resolve
sortDirectionText(filter) ==
    IF /\ filter # Nil
       /\ filter[1].SortDirection # Nil
       /\ filter[1].SortDirection[1] = SortDirection_DESC
    THEN QueryText.desc
    ELSE QueryText.asc

\* racesSortColumn with the column of NAME and NUMBER exchanged
racesSortColumn_exchanged(filter) ==
    IF filter # Nil /\ filter[1].SortField # Nil
    THEN CASE filter[1].SortField[1] = SortField_NAME -> QueryText.number
           [] filter[1].SortField[1] = SortField_NUMBER -> QueryText.name
           [] filter[1].SortField[1] = SortField_ADVERTISED_START_TIME -> QueryText.advertised
           [] OTHER -> QueryText.advertised
    ELSE QueryText.advertised

\* the switch of (*racesRepo).applySorting on the sort field
racesSortColumn(filter) ==
    IF filter # Nil /\ filter[1].SortField # Nil
    THEN CASE filter[1].SortField[1] = SortField_NAME -> QueryText.name
           [] filter[1].SortField[1] = SortField_NUMBER -> QueryText.number
           [] filter[1].SortField[1] = SortField_ADVERTISED_START_TIME -> QueryText.advertised
           [] OTHER -> QueryText.advertised
    ELSE QueryText.advertised

\* the switch of (*eventsRepo).applySorting on the sort field
eventsSortColumn(filter) ==
    IF filter # Nil /\ filter[1].SortField # Nil
    THEN CASE filter[1].SortField[1] = SortField_NAME -> QueryText.name
           [] filter[1].SortField[1] = SortField_SPORT_TYPE -> QueryText.sport_type
           [] filter[1].SortField[1] = SortField_ADVERTISED_START_TIME -> QueryText.advertised
           [] OTHER -> QueryText.advertised
    ELSE QueryText.advertised

\* (*racesRepo).applySorting
racesRepo_applySorting(query, filter) ==
    query \o QueryText.orderBy \o racesSortColumn(filter) \o QueryText.space \o sortDirectionText(filter)

\* (*eventsRepo).applySorting
eventsRepo_applySorting(query, filter) ==
    query \o QueryText.orderBy \o eventsSortColumn(filter) \o QueryText.space \o sortDirectionText(filter)

\* the statement and the arguments (*racesRepo).List hands to db.Query
racesRepo_compile(filter) ==
    [filtered |-> racesRepo_applyFilter(racesListQuery, filter).query,
     query |-> racesRepo_applySorting(racesRepo_applyFilter(racesListQuery, filter).query,
                                      filter),
     args  |-> racesRepo_applyFilter(racesListQuery, filter).args]

\* the statement and the arguments (*eventsRepo).List hands to db.Query
eventsRepo_compile(filter) ==
    [filtered |-> eventsRepo_applyFilter(eventsListQuery, filter).query,
     query |-> eventsRepo_applySorting(eventsRepo_applyFilter(eventsListQuery, filter).query,
                                       filter),
     args  |-> eventsRepo_applyFilter(eventsListQuery, filter).args]

(***************************************************************************)
(* Storage: the races and events tables, and what database/sql does with   *)
(* a statement: db.Query parses the text, binds the arguments to the       *)
(* placeholders, selects the rows of the WHERE clause and orders them.     *)
(***************************************************************************)
\* the byte order of the characters stored names are made of
CharCode(c) ==
    CASE c = " " -> 32 [] c = "?" -> 63 [] c = "a" -> 97 [] c = "b" -> 98 [] c = "c" -> 99
      [] OTHER -> 0

\* memcmp order of two TEXT values (the BINARY collation)
StrLess(a, b) ==
    LET m    == IF Len(a) < Len(b) THEN Len(a) ELSE Len(b)
        diff == {i \in 1..m : a[i] # b[i]}
    IN  IF diff = {} THEN Len(a) < Len(b)
        ELSE LET i == CHOOSE j \in diff : \A k \in diff : j <= k
             IN  CharCode(a[i]) < CharCode(b[i])

\* the columns a statement may be ordered by: the text of the name, the field of the row
NameColumn == [text |-> QueryText.name, field |-> "name", isText |-> TRUE]
NumberColumn == [text |-> QueryText.number, field |-> "number", isText |-> FALSE]
SportTypeColumn == [text |-> QueryText.sport_type, field |-> "sport_type", isText |-> TRUE]
StartColumn == [text |-> QueryText.advertised, field |-> "advertised_start_time", isText |-> FALSE]
MeetingColumn == [text |-> <<"m","e","e","t","i","n","g","_","i","d">>,
                  field |-> "meeting_id", isText |-> FALSE]

\* the schema of a table: its category column and its sortable columns
RacesSchema == [category |-> MeetingColumn,
                columns |-> {NameColumn, NumberColumn, StartColumn, MeetingColumn}]
EventsSchema == [category |-> SportTypeColumn,
                 columns |-> {NameColumn, SportTypeColumn, StartColumn}]

\* SQL: the placeholder list of an IN clause of n >= 1 values
RECURSIVE sqlPlaceholders(_)
sqlPlaceholders(n) == IF n <= 1 THEN <<"?">> ELSE <<"?", ",">> \o sqlPlaceholders(n - 1)

\* SQL: the text of the statement that selects by n category values (n = 0: no IN
\* clause) and by visibility, ordered by column col
sqlText(base, schema, plan) ==
    base
    \o (IF plan.n > 0 \/ plan.vis THEN <<" ","W","H","E","R","E"," ">> ELSE <<>>)
    \o (IF plan.n > 0
        THEN schema.category.text \o <<" ","I","N"," ","(">> \o sqlPlaceholders(plan.n)
             \o <<")">>
        ELSE <<>>)
    \o (IF plan.n > 0 /\ plan.vis THEN <<" ","A","N","D"," ">> ELSE <<>>)
    \o (IF plan.vis THEN <<"v","i","s","i","b","l","e"," ","="," ","1">> ELSE <<>>)
    \o <<" ","O","R","D","E","R"," ","B","Y"," ">> \o plan.col.text
    \o (IF plan.desc THEN <<" ","D","E","S","C">> ELSE <<" ","A","S","C">>)

\* SQL: the readings of a statement text (none: the text is no statement)
sqlPlans(base, schema, query) ==
    {plan \in [n : 0..CountChar(query, "?"), vis : BOOLEAN, col : schema.columns,
               desc : BOOLEAN] :
        sqlText(base, schema, plan) = query}

\* SQL: r comes before s in the order of the plan
sqlBefore(plan, r, s) ==
    LET a == IF plan.desc THEN s[plan.col.field] ELSE r[plan.col.field]
        b == IF plan.desc THEN r[plan.col.field] ELSE s[plan.col.field]
    IN  IF plan.col.isText THEN StrLess(a, b) ELSE a < b

\* SQL: ORDER BY; rows of equal key keep the order of the table
RECURSIVE sqlOrder(_, _)
sqlOrder(plan, rows) ==
    IF Len(rows) <= 1 THEN rows
    ELSE LET x == rows[Len(rows)]
             s == sqlOrder(plan, SubSeq(rows, 1, Len(rows) - 1))
             k == Cardinality({i \in 1..Len(s) : ~sqlBefore(plan, x, s[i])})
         IN  SubSeq(s, 1, k) \o <<x>> \o SubSeq(s, k + 1, Len(s))

\* the rows of seq that satisfy Keep, in order
RECURSIVE SelectRows(_, _)
SelectRows(rows, keep) ==
    IF Len(rows) = 0 THEN <<>>
    ELSE (IF keep[1] THEN <<rows[1]>> ELSE <<>>) \o SelectRows(Tail(rows), Tail(keep))

\* SQL: the rows the WHERE clause of the plan selects, args bound to the placeholders
sqlWhere(schema, plan, args, table) ==
    SelectRows(table,
        [i \in 1..Len(table) |->
            /\ plan.n > 0 =>
                 \E j \in 1..plan.n : table[i][schema.category.field] = args[j]
            /\ plan.vis => table[i].visible])

\* (*sql.DB).Query(query, args...): the error, or the rows in the order of the statement
db_Query(table, base, schema, query, args, fault) ==
    IF fault.kind = "query" THEN [err |-> NewError(LibText.dbClosed), rows |-> <<>>]
    ELSE LET plans == sqlPlans(base, schema, query)
         IN  IF plans = {}
             THEN [err |-> NewError(LibText.syntaxError), rows |-> <<>>]
             ELSE LET plan == CHOOSE p \in plans : TRUE
                  IN  IF plan.n # Len(args)
                      THEN [err |-> NewError(LibText.bindError), rows |-> <<>>]
                      ELSE [err |-> Nil,
                            rows |-> sqlOrder(plan, sqlWhere(schema, plan, args, table))]

\* the rows (*sql.Rows).Next yields before it returns false: all of them, or, when the
\* iteration fails, those read before the failure
rows_Next(rows, fault) ==
    IF fault.kind = "rows" /\ fault.after < Len(rows)
    THEN SubSeq(rows, 1, fault.after)
    ELSE rows

\* (*sql.Rows).Err() after the loop
rows_Err(rows, fault) ==
    IF fault.kind = "rows" /\ fault.after < Len(rows) THEN NewError(LibText.ioError) ELSE Nil

\* the error of the first call of (*sql.Rows).Scan that fails, Nil when none does
rows_Scan(rows, fault) ==
    IF fault.kind = "scan" /\ fault.after < Len(rows) THEN NewError(LibText.scanError) ELSE Nil

\* the rows scanned before the call of (*sql.Rows).Scan that fails
rows_Scanned(rows, fault) ==
    IF fault.kind = "scan" /\ fault.after < Len(rows)
    THEN SubSeq(rows, 1, fault.after)
    ELSE rows_Next(rows, fault)

(***************************************************************************)
(* The repositories.                                                       *)
(***************************************************************************)
\* the zero value of racing.RaceStatus, which scanRaces leaves in Race.Status
RaceStatus_zero == "RaceStatus(0)"
EventStatus_OPEN == "OPEN"
EventStatus_CLOSED == "CLOSED"

\* ptypes.TimestampProto(t)
TimestampProto(t) == [seconds |-> t]

\* setEventStatus closing the event that starts at the very instant of the call
setEventStatus_notStrict(advertisedStart, timeNow) ==
    IF advertisedStart <= timeNow THEN EventStatus_CLOSED ELSE EventStatus_OPEN

\* setEventStatus: timeNow is the value of time.Now() in this call
setEventStatus(advertisedStart, timeNow) ==
    IF advertisedStart < timeNow THEN EventStatus_CLOSED ELSE EventStatus_OPEN

\* the Race one pass of the loop of scanRaces appends
scanRace(row) ==
    [Id |-> row.id, MeetingId |-> row.meeting_id, Name |-> row.name,
     Number |-> row.number, Visible |-> row.visible,
     AdvertisedStartTime |-> TimestampProto(row.advertised_start_time),
     Status |-> RaceStatus_zero]

\* (*racesRepo).scanRaces over the rows rows.Next yields
scanRaces(rows) == [i \in 1..Len(rows) |-> scanRace(rows[i])]

\* the Event one pass of the loop of scanEvents appends
scanEvent(row, timeNow) ==
    [Id |-> row.id, Name |-> row.name,
     AdvertisedStartTime |-> TimestampProto(row.advertised_start_time),
     SportType |-> row.sport_type, Venue |-> row.venue, Visible |-> row.visible,
     Status |-> setEventStatus(row.advertised_start_time, timeNow)]

\* (*eventsRepo).scanEvents over the rows rows.Next yields; samples[i] is the value of
\* time.Now() in the i-th pass of the loop
scanEvents(rows, samples) == [i \in 1..Len(rows) |-> scanEvent(rows[i], samples[i])]

\* (*racesRepo).List: the result, with the statement and arguments handed to db.Query
racesRepo_List(table, filter, fault) ==
    LET q   == racesRepo_compile(filter)
        res == db_Query(table, racesListQuery, RacesSchema, q.query, q.args, fault)
    IN  [filtered |-> q.filtered, query |-> q.query, args |-> q.args,
         err   |-> IF res.err # Nil THEN res.err ELSE rows_Scan(res.rows, fault),
         scanErr |-> IF res.err # Nil THEN Nil ELSE rows_Scan(res.rows, fault),
         rowsErr |-> rows_Err(res.rows, fault),
         races |-> IF res.err # Nil \/ rows_Scan(res.rows, fault) # Nil THEN Nil
                   ELSE scanRaces(rows_Next(res.rows, fault))]

\* (*eventsRepo).List up to the return of db.Query: the statement, the arguments, the
\* error of db.Query and the rows rows.Next yields
eventsRepo_query(table, filter, fault) ==
    LET q   == eventsRepo_compile(filter)
        res == db_Query(table, eventsListQuery, EventsSchema, q.query, q.args, fault)
    IN  [filtered |-> q.filtered, query |-> q.query, args |-> q.args,
         err  |-> IF res.err # Nil THEN res.err ELSE rows_Scan(res.rows, fault),
         scanErr |-> IF res.err # Nil THEN Nil ELSE rows_Scan(res.rows, fault),
         rowsErr |-> rows_Err(res.rows, fault),
         rows |-> IF res.err # Nil THEN <<>> ELSE rows_Scanned(res.rows, fault)]

\* (*eventsRepo).List; queried is the part of the call up to the return of db.Query
eventsRepo_List(queried, samples) ==
    [filtered |-> queried.filtered, query |-> queried.query, args |-> queried.args,
     err    |-> queried.err, scanErr |-> queried.scanErr, rowsErr |-> queried.rowsErr,
     events |-> IF queried.err # Nil THEN Nil ELSE scanEvents(queried.rows, samples)]

\* the rows of the table with the given id
rowsById(table, id) ==
    SelectRows(table, [i \in 1..Len(table) |-> table[i].id = id])

\* GetByID returning sql.ErrNoRows as it is when no row has the id
eventsRepo_GetByID_rawNoRows(table, id, fault, timeNow) ==
    [filtered |-> eventsGetByIDQuery, query |-> eventsGetByIDQuery, args |-> <<id>>,
     err   |-> IF fault.kind # "none" THEN NewError(LibText.dbClosed)
               ELSE IF rowsById(table, id) = <<>>
               THEN NewError(<<"s","q","l",":"," ","n","o"," ","r","o","w","s"," ","i","n"," ",
                               "r","e","s","u","l","t"," ","s","e","t">>)
               ELSE Nil,
     event |-> IF fault.kind # "none" \/ rowsById(table, id) = <<>> THEN Nil
               ELSE Some(scanEvent(rowsById(table, id)[1], timeNow))]

\* (*eventsRepo).GetByID
eventsRepo_GetByID(table, id, fault, timeNow) ==
    [filtered |-> eventsGetByIDQuery, query |-> eventsGetByIDQuery, args |-> <<id>>,
     err   |-> IF fault.kind # "none" THEN NewError(LibText.dbClosed)
               ELSE IF rowsById(table, id) = <<>>
               THEN NewError(EventsGetText.eventWithId \o Itoa(id) \o EventsGetText.notFound)
               ELSE Nil,
     event |-> IF fault.kind # "none" \/ rowsById(table, id) = <<>> THEN Nil
               ELSE Some(scanEvent(rowsById(table, id)[1], timeNow))]

\* racesRepo.GetByID: the lookup of one race by id
racesRepo_GetByID(table, id, fault) ==
    [filtered |-> racesListQuery \o RacesGetText.whereId, query |-> racesListQuery \o RacesGetText.whereId,
     args |-> <<id>>,
     err   |-> IF fault.kind # "none" THEN NewError(LibText.dbClosed)
               ELSE IF rowsById(table, id) = <<>>
               THEN NewError(RacesGetText.raceWithId \o Itoa(id) \o RacesGetText.notFound)
               ELSE Nil,
     race  |-> IF fault.kind # "none" \/ rowsById(table, id) = <<>> THEN Nil
               ELSE Some(scanRace(rowsById(table, id)[1]))]

(***************************************************************************)
(* The services.  ctx is "nil" (a nil context.Context), "cancelled" (Done  *)
(* is closed) or "live"; in is Nil or Some(request).  The result is the    *)
(* response, the error and the calls made on the repository.               *)
(***************************************************************************)
\* ctx.Err() of a cancelled context
ctx_Err == NewError(LibText.ctxCanceled)

\* entryChecks without the check of ctx.Done()
entryChecks_noCancel(ctx, in) ==
    IF ctx = "nil" THEN NewError(SvcRacingText.ctxNil)
    ELSE IF in = Nil THEN NewError(SvcRacingText.reqNil)
    ELSE Nil

\* the checks of the context and of the nil request that open the four handlers:
\* the error they return, or Nil to continue
entryChecks(ctx, in) ==
    IF ctx = "nil" THEN NewError(SvcRacingText.ctxNil)
    ELSE IF ctx = "cancelled" THEN Errorf(SvcRacingText.reqCancelled, ctx_Err)
    ELSE IF in = Nil THEN NewError(SvcRacingText.reqNil)
    ELSE Nil

\* the return of a handler before any call on the repository
Reject(err) == [resp |-> Nil, err |-> err, repoCalls |-> <<>>]

\* the record of one call on a repository: the method and its argument, the statement
\* and the arguments handed to the database, what the repository returned, the error of
\* the rows.Scan that failed, and what rows.Err() would have returned after the loop
\* over the rows
RepoCall(method, arg, r) ==
    [method |-> method, arg |-> arg, filtered |-> r.filtered, query |-> r.query,
     args |-> r.args,
     result |-> IF "races" \in DOMAIN r THEN r.races
                ELSE IF "events" \in DOMAIN r THEN r.events
                ELSE IF "race" \in DOMAIN r THEN r.race
                ELSE IF "event" \in DOMAIN r THEN r.event
                ELSE Nil,
     err |-> IF "err" \in DOMAIN r THEN r.err ELSE Nil,
     scanErr |-> IF "scanErr" \in DOMAIN r THEN r.scanErr ELSE Nil,
     rowsErr |-> IF "rowsErr" \in DOMAIN r THEN r.rowsErr ELSE Nil]

\* ListRaces without the call of in.Validate()
racingService_ListRaces_noValidate(ctx, in, table, fault) ==
    IF entryChecks(ctx, in) # Nil THEN Reject(entryChecks(ctx, in))
    ELSE LET r == racesRepo_List(table, in[1].Filter, fault)
         IN  [resp |-> IF r.err # Nil THEN Nil ELSE Some([Races |-> r.races]),
              err  |-> IF r.err # Nil THEN Errorf(SvcRacingText.failedRaces, r.err) ELSE Nil,
              repoCalls |-> <<RepoCall("List", in[1].Filter, r)>>]

\* (*racingService).ListRaces
racingService_ListRaces(ctx, in, table, fault) ==
    IF entryChecks(ctx, in) # Nil THEN Reject(entryChecks(ctx, in))
    ELSE IF ListRacesRequest_Validate(in[1]) # Nil
    THEN Reject(Errorf(SvcRacingText.validationFailed, ListRacesRequest_Validate(in[1])))
    ELSE LET r == racesRepo_List(table, in[1].Filter, fault)
         IN  [resp |-> IF r.err # Nil THEN Nil ELSE Some([Races |-> r.races]),
              err  |-> IF r.err # Nil THEN Errorf(SvcRacingText.failedRaces, r.err) ELSE Nil,
              repoCalls |-> <<RepoCall("List", in[1].Filter, r)>>]

\* (*racingService).GetRace
racingService_GetRace(ctx, in, table, fault) ==
    IF entryChecks(ctx, in) # Nil THEN Reject(entryChecks(ctx, in))
    ELSE IF in[1].Id <= 0 THEN Reject(NewError(SvcRacingText.raceIdPositive))
    ELSE LET r == racesRepo_GetByID(table, in[1].Id, fault)
         IN  [resp |-> IF r.err # Nil THEN Nil ELSE Some([Race |-> r.race]),
              err  |-> IF r.err # Nil THEN Errorf(SvcRacingText.failedRace, r.err) ELSE Nil,
              repoCalls |-> <<RepoCall("GetByID", in[1].Id, r)>>]

\* (*sportsService).ListEvents; queried is the part of the call of eventsRepo.List up
\* to the return of db.Query
sportsService_ListEvents(ctx, in, queried, samples) ==
    IF entryChecks(ctx, in) # Nil THEN Reject(entryChecks(ctx, in))
    ELSE LET r == eventsRepo_List(queried, samples)
         IN  [resp |-> IF r.err # Nil THEN Nil ELSE Some([Events |-> r.events]),
              err  |-> IF r.err # Nil THEN Errorf(SvcSportsText.failedEvents, r.err) ELSE Nil,
              repoCalls |-> <<RepoCall("List", in[1].Filter, r)>>]

\* GetEvent returning the error of the repository without the context of the operation
sportsService_GetEvent_unwrapped(ctx, in, table, fault, timeNow) ==
    IF entryChecks(ctx, in) # Nil THEN Reject(entryChecks(ctx, in))
    ELSE IF in[1].Id <= 0 THEN Reject(NewError(SvcSportsText.eventIdPositive))
    ELSE LET r == eventsRepo_GetByID(table, in[1].Id, fault, timeNow)
         IN  [resp |-> IF r.err # Nil THEN Nil ELSE Some([Event |-> r.event]),
              err  |-> r.err,
              repoCalls |-> <<RepoCall("GetByID", in[1].Id, r)>>]

\* GetEvent rejecting only the negative ids
sportsService_GetEvent_zeroPasses(ctx, in, table, fault, timeNow) ==
    IF entryChecks(ctx, in) # Nil THEN Reject(entryChecks(ctx, in))
    ELSE IF in[1].Id < 0 THEN Reject(NewError(SvcSportsText.eventIdPositive))
    ELSE LET r == eventsRepo_GetByID(table, in[1].Id, fault, timeNow)
         IN  [resp |-> IF r.err # Nil THEN Nil ELSE Some([Event |-> r.event]),
              err  |-> IF r.err # Nil THEN Errorf(SvcSportsText.failedEvent, r.err) ELSE Nil,
              repoCalls |-> <<RepoCall("GetByID", in[1].Id, r)>>]

\* (*sportsService).GetEvent
sportsService_GetEvent(ctx, in, table, fault, timeNow) ==
    IF entryChecks(ctx, in) # Nil THEN Reject(entryChecks(ctx, in))
    ELSE IF in[1].Id <= 0 THEN Reject(NewError(SvcSportsText.eventIdPositive))
    ELSE LET r == eventsRepo_GetByID(table, in[1].Id, fault, timeNow)
         IN  [resp |-> IF r.err # Nil THEN Nil ELSE Some([Event |-> r.event]),
              err  |-> IF r.err # Nil THEN Errorf(SvcSportsText.failedEvent, r.err) ELSE Nil,
              repoCalls |-> <<RepoCall("GetByID", in[1].Id, r)>>]

(***************************************************************************)
(* The validators and Init, statement by statement, as the goroutines run  *)
(* them.  l is the record of the locals of a goroutine: where it is (pc),  *)
(* the index of the loop (i, from 1), the map seen, the error it returns;  *)
(* f is the filter the receiver points to.  A pass of a loop gives the     *)
(* filter and the locals after it.                                         *)
(***************************************************************************)
\* validateMeetingIds up to its loop: the test of the length, seen := make(map)
validateMeetingIds_enter(f, l) ==
    IF Len(f.MeetingIds) > MaxMeetingIDs
    THEN [l EXCEPT !.pc = "returned",
                   !.err = Errorf(RacingValText.meetingIdsFailed,
                                  NewError(RacingValText.tooMany \o Itoa(Len(f.MeetingIds))
                                           \o RacingValText.maxAllowed \o Itoa(MaxMeetingIDs)))]
    ELSE [l EXCEPT !.pc = "range", !.i = 1, !.seen = {}]

\* one pass of the loop of validateMeetingIds
validateMeetingIds_pass(f, l) ==
    LET id == f.MeetingIds[l.i]
        failed(e) == [l EXCEPT !.pc = "returned",
                               !.err = Errorf(RacingValText.meetingIdsFailed, e)]
    IN  [filter |-> f,
         local  |->
            IF id <= 0
            THEN failed(NewError(RacingValText.invalidAt \o Itoa(l.i - 1) \o RacingValText.colon
                                 \o Itoa(id) \o RacingValText.mustBePositive))
            ELSE IF id > MaxMeetingID
            THEN failed(NewError(RacingValText.tooLargeAt \o Itoa(l.i - 1) \o RacingValText.colon
                                 \o Itoa(id) \o RacingValText.maxOpen \o Itoa(MaxMeetingID)
                                 \o RacingValText.close))
            ELSE IF id \in l.seen
            THEN failed(NewError(RacingValText.duplicate \o Itoa(id)))
            ELSE [l EXCEPT !.seen = @ \cup {id}, !.i = @ + 1]]

\* validateSportTypes up to its loop: the test of the length, seen := make(map)
validateSportTypes_enter(f, l) ==
    IF Len(f.SportTypes) > MaxSportTypes
    THEN [l EXCEPT !.pc = "returned",
                   !.err = Errorf(SportsValText.sportTypesFailed,
                                  NewError(SportsValText.tooMany \o Itoa(Len(f.SportTypes))
                                           \o SportsValText.maxAllowed \o Itoa(MaxSportTypes)))]
    ELSE [l EXCEPT !.pc = "range", !.i = 1, !.seen = {}]

\* a pass of the loop of validateSportTypes that assigns the trimmed sport type to the
\* element of f.SportTypes instead of the variable of the loop
validateSportTypes_pass_inPlace(f, l) ==
    LET sportType == TrimSpace(f.SportTypes[l.i])
        failed(e) == [l EXCEPT !.pc = "returned",
                               !.err = Errorf(SportsValText.sportTypesFailed, e)]
    IN  [filter |-> [f EXCEPT !.SportTypes[l.i] = sportType],
         local  |->
            IF sportType = <<>>
            THEN failed(NewError(SportsValText.emptyAt \o Itoa(l.i - 1)))
            ELSE IF Len(sportType) > MaxSportTypeLength
            THEN failed(NewError(SportsValText.tooLongAt \o Itoa(l.i - 1) \o SportsValText.colon
                                 \o Itoa(Len(sportType)) \o SportsValText.characters
                                 \o Itoa(MaxSportTypeLength) \o SportsValText.close))
            ELSE IF sportType \in l.seen
            THEN failed(NewError(SportsValText.duplicate \o sportType))
            ELSE [l EXCEPT !.seen = @ \cup {sportType}, !.i = @ + 1]]

\* one pass of the loop of validateSportTypes: sportType is the variable of the loop, a
\* copy of the element
validateSportTypes_pass(f, l) ==
    LET sportType == TrimSpace(f.SportTypes[l.i])
        failed(e) == [l EXCEPT !.pc = "returned",
                               !.err = Errorf(SportsValText.sportTypesFailed, e)]
    IN  [filter |-> f,
         local  |->
            IF sportType = <<>>
            THEN failed(NewError(SportsValText.emptyAt \o Itoa(l.i - 1)))
            ELSE IF Len(sportType) > MaxSportTypeLength
            THEN failed(NewError(SportsValText.tooLongAt \o Itoa(l.i - 1) \o SportsValText.colon
                                 \o Itoa(Len(sportType)) \o SportsValText.characters
                                 \o Itoa(MaxSportTypeLength) \o SportsValText.close))
            ELSE IF sportType \in l.seen
            THEN failed(NewError(SportsValText.duplicate \o sportType))
            ELSE [l EXCEPT !.seen = @ \cup {sportType}, !.i = @ + 1]]

\* Validate after the validation of the category ids: validateVisibleOnly, and for the
\* sports filter validateSorting
Validate_rest(f, l) ==
    IF "MeetingIds" \in DOMAIN f
    THEN [l EXCEPT !.pc = "returned",
                   !.err = IF validateVisibleOnly(f) # Nil
                           THEN Errorf(RacingValText.visibleOnlyFailed, validateVisibleOnly(f))
                           ELSE Nil]
    ELSE [l EXCEPT !.pc = "returned",
                   !.err = IF validateVisibleOnly(f) # Nil
                           THEN Errorf(SportsValText.visibleOnlyFailed, validateVisibleOnly(f))
                           ELSE IF validateSorting(f) # Nil
                           THEN Errorf(SportsValText.sortingFailed, validateSorting(f))
                           ELSE Nil]

\* (*eventsRepo).seed: stmtErrs[1] is the error of creating the table, stmtErrs[k + 1]
\* the error of preparing or executing the k-th insert; err is assigned anew by every
\* statement and returned after the last
eventsRepo_seed(stmtErrs) == stmtErrs[Len(stmtErrs)]

(***************************************************************************)
(* Inputs.                                                                 *)
(***************************************************************************)
\* the sequences over S of length at most n
SeqsUpTo(S, n) == UNION {[1..k -> S] : k \in 0..n}

CtxSet == {"nil", "cancelled", "live"}
OptBool == {Nil, Some(TRUE), Some(FALSE)}
RaceSortFields ==
    {Nil, Some(SortField_ADVERTISED_START_TIME), Some(SortField_NAME),
     Some(SortField_NUMBER), Some(Undeclared)}
EventSortFields ==
    {Nil, Some(SortField_ADVERTISED_START_TIME), Some(SortField_NAME),
     Some(SortField_SPORT_TYPE), Some(Undeclared)}
SortDirections == {Nil, Some(SortDirection_ASC), Some(SortDirection_DESC), Some(Undeclared)}

\* meeting ids of requests: not positive, valid, too large
MeetingIdValues == {0, 1, 2, MaxMeetingID + 1}
\* sport types of requests: stored ones, one with white space around it, a blank one,
\* one made of a placeholder character
SportTypeValues == {<<"a">>, <<"b">>, <<" ", "a", " ">>, <<" ">>, <<"?">>}

RaceFilters ==
    [MeetingIds : SeqsUpTo(MeetingIdValues, MaxIds), VisibleOnly : OptBool,
     SortField : RaceSortFields, SortDirection : SortDirections]
EventFilters ==
    [SportTypes : SeqsUpTo(SportTypeValues, MaxIds), VisibleOnly : OptBool,
     SortField : EventSortFields, SortDirection : SortDirections]

\* *ListRacesRequest: nil, with a nil filter, with a filter
ListRacesRequests == {Nil} \cup {Some([Filter |-> f]) : f \in {Nil} \cup {Some(g) : g \in RaceFilters}}
ListEventsRequests == {Nil} \cup {Some([Filter |-> f]) : f \in {Nil} \cup {Some(g) : g \in EventFilters}}

\* ids of get-by-id requests
GetIds == {0 - 999, 0 - 1, 0} \cup (1..(MaxRows + 1))
GetRequests == {Nil} \cup {Some([Id |-> i]) : i \in GetIds}

\* what the storage does during one call: it works, the query fails, the iteration over
\* the rows fails after some rows were read, or the scan of a row fails after some rows
\* were scanned
DbFaults ==
    {[kind |-> "none", after |-> 0], [kind |-> "query", after |-> 0]}
    \cup {[kind |-> "rows", after |-> k] : k \in 0..(MaxRows - 1)}
    \cup {[kind |-> "scan", after |-> k] : k \in 0..(MaxRows - 1)}

\* the rows tables are made of, without their id
RaceRowSeq ==
    <<[meeting_id |-> 1, name |-> <<"b">>, number |-> 1, visible |-> TRUE,
      advertised_start_time |-> 0],
     [meeting_id |-> 1, name |-> <<"a">>, number |-> 2, visible |-> FALSE,
      advertised_start_time |-> 2],
     [meeting_id |-> 2, name |-> <<"a">>, number |-> 1, visible |-> TRUE,
      advertised_start_time |-> 1],
     [meeting_id |-> 2, name |-> <<"b">>, number |-> 2, visible |-> FALSE,
      advertised_start_time |-> 1]>>
EventRowSeq ==
    <<[sport_type |-> <<"a">>, name |-> <<"b">>, venue |-> <<"c">>, visible |-> TRUE,
      advertised_start_time |-> 0],
     [sport_type |-> <<"a">>, name |-> <<"a">>, venue |-> <<"c">>, visible |-> FALSE,
      advertised_start_time |-> 2],
     [sport_type |-> <<"b">>, name |-> <<"a">>, venue |-> <<"c">>, visible |-> TRUE,
      advertised_start_time |-> 1],
     [sport_type |-> <<"b">>, name |-> <<"b">>, venue |-> <<"c">>, visible |-> FALSE,
      advertised_start_time |-> 1]>>
RaceRows == {RaceRowSeq[i] : i \in 1..Len(RaceRowSeq)}
EventRows == {EventRowSeq[i] : i \in 1..Len(EventRowSeq)}

\* the row of primary key id
WithId(row, id) == [f \in DOMAIN row \cup {"id"} |-> IF f = "id" THEN id ELSE row[f]]

\* the tables of at most MaxRows rows; the primary keys are 1, 2, ... in table order
Tables(rows) ==
    {[i \in 1..Len(t) |-> WithId(t[i], i)] : t \in SeqsUpTo(rows, MaxRows)}

\* the table seed fills: MaxRows rows, the rows of rowSeq in turn
Seeded(rowSeq) ==
    [i \in 1..MaxRows |-> WithId(rowSeq[((i - 1) % Len(rowSeq)) + 1], i)]

\* the filters of the direct calls on the repositories: category ids that are stored
\* or not, and these sort requests
RepoMeetingIds == {1, 2}
RepoSportTypes == {<<"a">>, <<"b">>, <<" ", "a", " ">>}
RepoRaceSorts ==
    {<<Nil, Nil>>, <<Some(SortField_NAME), Some(SortDirection_ASC)>>,
     <<Some(SortField_NAME), Some(SortDirection_DESC)>>,
     <<Some(SortField_NUMBER), Some(SortDirection_ASC)>>,
     <<Some(SortField_NUMBER), Some(SortDirection_DESC)>>,
     <<Some(SortField_ADVERTISED_START_TIME), Some(SortDirection_DESC)>>,
     <<Some(Undeclared), Some(Undeclared)>>}
RepoEventSorts ==
    {<<Nil, Nil>>, <<Some(SortField_NAME), Some(SortDirection_ASC)>>,
     <<Some(SortField_NAME), Some(SortDirection_DESC)>>,
     <<Some(SortField_SPORT_TYPE), Some(SortDirection_ASC)>>,
     <<Some(SortField_SPORT_TYPE), Some(SortDirection_DESC)>>,
     <<Some(SortField_ADVERTISED_START_TIME), Some(SortDirection_DESC)>>,
     <<Some(Undeclared), Some(Undeclared)>>}
RepoRaceFilters ==
    {Nil} \cup
    {Some([MeetingIds |-> ids, VisibleOnly |-> v, SortField |-> s[1],
           SortDirection |-> s[2]]) :
        ids \in SeqsUpTo(RepoMeetingIds, MaxIds), v \in OptBool, s \in RepoRaceSorts}
RepoEventFilters ==
    {Nil} \cup
    {Some([SportTypes |-> ids, VisibleOnly |-> v, SortField |-> s[1],
           SortDirection |-> s[2]]) :
        ids \in SeqsUpTo(RepoSportTypes, MaxIds), v \in OptBool, s \in RepoEventSorts}

\* lists of meeting ids at the limits of the validation: as many as allowed and one
\* more, with and without invalid and repeated ids; ids at and around the largest id
EdgeMeetingIdLists ==
    {[i \in 1..MaxMeetingIDs |-> i],
     [i \in 1..(MaxMeetingIDs + 1) |-> i],
     [i \in 1..(MaxMeetingIDs + 1) |-> IF i = 1 THEN 0 ELSE 1],
     [i \in 1..MaxMeetingIDs |-> IF i = MaxMeetingIDs THEN 1 ELSE i],
     <<1, 2, 1>>, <<1, 0 - 2, 3>>, <<MaxMeetingID>>, <<MaxMeetingID + 1>>,
     <<2, MaxMeetingID + 1, 0>>, <<MaxMeetingID, 0, MaxMeetingID + 1>>}

\* lists of sport types at the limits of the validation: as many as allowed and one
\* more, types as long as allowed and one character longer, white space around them
EdgeSportTypeLists ==
    {[i \in 1..MaxSportTypes |-> Repeat(<<"a">>, i)],
     [i \in 1..(MaxSportTypes + 1) |-> Repeat(<<"a">>, i)],
     [i \in 1..(MaxSportTypes + 1) |-> IF i = 1 THEN <<" ">> ELSE <<"a">>],
     << <<"a">>, <<"b">>, <<"a">> >>, << <<"b">>, <<>> >>,
     << Repeat(<<"a">>, MaxSportTypeLength) >>,
     << Repeat(<<"a">>, MaxSportTypeLength + 1) >>,
     << <<" ">> \o Repeat(<<"a">>, MaxSportTypeLength) \o <<" ">> >>,
     << <<"a">>, <<" ">> \o Repeat(<<"a">>, MaxSportTypeLength + 1) >>}

\* the filters the validators are called with directly
ValidatedRaceFilters ==
    RaceFilters \cup
    [MeetingIds : EdgeMeetingIdLists, VisibleOnly : {Nil}, SortField : {Nil},
     SortDirection : {Nil}]
ValidatedEventFilters ==
    EventFilters \cup
    [SportTypes : EdgeSportTypeLists, VisibleOnly : {Nil}, SortField : {Nil},
     SortDirection : {Nil}]

\* the values of time.Now() in n successive calls from instant t on
Samples(t, n) ==
    {s \in [1..n -> t..MaxTime] : \A i \in 1..n : \A j \in i..n : s[i] <= s[j]}

(***************************************************************************)
(* The state machine: a client calls one handler at a time.                *)
(***************************************************************************)
VARIABLES
    races,      \* the table of the racing database
    events,     \* the table of the sports database
    now,        \* the clock
    pc,         \* "idle", or "returned" when a call has returned
    op,         \* the handler of the last call
    ctx,        \* its context
    req,        \* its request
    resp,       \* the response it returned
    err,        \* the error it returned
    repoCalls,  \* the calls it made on the repository
    sharedFilter, \* the filter goroutines validate at the same time, Nil when there is none
    once,       \* the sync.Once of each repository: "fresh", "running" or "done"
    seedErr,    \* what seed returned in each repository, Nil before it has
    goroutines  \* the goroutines that call Validate or Init: where each is, its locals

goVars == <<sharedFilter, once, seedErr, goroutines>>
vars == <<races, events, now, pc, op, ctx, req, resp, err, repoCalls, sharedFilter, once,
          seedErr, goroutines>>

\* the goroutines, and a goroutine that is in no call
Goroutines == 1..MaxCallers
Repos == {"racesRepo", "eventsRepo"}
idleGoroutine == [pc |-> "idle", call |-> "none", repo |-> "none", i |-> 0, seen |-> {}, err |-> Nil]

\* no goroutine is in a call and no repository has been initialised
NoGoroutine ==
    /\ once = [r \in Repos |-> "fresh"]
    /\ seedErr = [r \in Repos |-> Nil]
    /\ goroutines = [g \in Goroutines |-> idleGoroutine]

NoCall ==
    /\ op = "none" /\ ctx = "live" /\ req = Nil /\ resp = Nil /\ err = Nil
    /\ repoCalls = <<>>

\* the services after start-up: both tables are seeded
Init ==
    /\ races = Seeded(RaceRowSeq)
    /\ events = Seeded(EventRowSeq)
    /\ now = 0
    /\ pc = "idle"
    /\ NoCall
    /\ sharedFilter = Nil
    /\ NoGoroutine

\* a repository over any table
InitRepo ==
    /\ \/ races \in Tables(RaceRows) /\ events = <<>>
       \/ races = <<>> /\ events \in Tables(EventRows)
    /\ now = 0
    /\ pc = "idle"
    /\ NoCall
    /\ sharedFilter = Nil
    /\ NoGoroutine

\* the handler returns r for the call name(c, in)
Return(name, c, in, r) ==
    /\ pc' = "returned"
    /\ op' = name
    /\ ctx' = c
    /\ req' = in
    /\ resp' = r.resp
    /\ err' = r.err
    /\ repoCalls' = r.repoCalls
    /\ UNCHANGED <<races, events>>
    /\ UNCHANGED goVars

ListRaces ==
    /\ pc = "idle"
    /\ \E c \in CtxSet, in \in ListRacesRequests, fault \in DbFaults :
         Return("ListRaces", c, in, racingService_ListRaces(c, in, races, fault))
    /\ UNCHANGED now

GetRace ==
    /\ pc = "idle"
    /\ \E c \in CtxSet, in \in GetRequests, fault \in DbFaults :
         Return("GetRace", c, in, racingService_GetRace(c, in, races, fault))
    /\ UNCHANGED now

ListEvents ==
    /\ pc = "idle"
    /\ \E c \in CtxSet, in \in ListEventsRequests, fault \in DbFaults :
         LET queried == IF entryChecks(c, in) # Nil THEN [rows |-> <<>>]
                        ELSE eventsRepo_query(events, in[1].Filter, fault)
         IN  \E samples \in Samples(now, Len(queried.rows)) :
               /\ Return("ListEvents", c, in,
                         sportsService_ListEvents(c, in, queried, samples))
               /\ now' = IF samples = <<>> THEN now ELSE samples[Len(samples)]

GetEvent ==
    /\ pc = "idle"
    /\ \E c \in CtxSet, in \in GetRequests, fault \in DbFaults :
         \E timeNow \in now..MaxTime :
           /\ Return("GetEvent", c, in,
                     sportsService_GetEvent(c, in, events, fault, timeNow))
           /\ now' = timeNow

\* a direct call of (*racesRepo).List, as the tests of the repository make
RacesList ==
    /\ pc = "idle"
    /\ \E filter \in RepoRaceFilters, fault \in DbFaults :
         LET r == racesRepo_List(races, filter, fault)
         IN  Return("racesRepo.List", "live", filter,
                    [resp |-> r.races, err |-> r.err,
                     repoCalls |-> <<RepoCall("List", filter, r)>>])
    /\ UNCHANGED now

\* a direct call of (*eventsRepo).List
EventsList ==
    /\ pc = "idle"
    /\ \E filter \in RepoEventFilters, fault \in DbFaults :
         LET queried == eventsRepo_query(events, filter, fault)
         IN  \E samples \in Samples(now, Len(queried.rows)) :
               LET r == eventsRepo_List(queried, samples)
               IN  /\ Return("eventsRepo.List", "live", filter,
                             [resp |-> r.events, err |-> r.err,
                              repoCalls |-> <<RepoCall("List", filter, r)>>])
                   /\ now' = IF samples = <<>> THEN now ELSE samples[Len(samples)]

\* a direct call of applyFilter and applySorting of racesRepo, and of the validation of
\* the filter
RacesCompile ==
    /\ pc = "idle"
    /\ \E filter \in {Nil} \cup {Some(g) : g \in RaceFilters} :
         Return("racesRepo.compile", "live", filter,
                [resp |-> Nil,
                 err |-> ListRacesRequest_Validate([Filter |-> filter]),
                 repoCalls |-> <<RepoCall("compile", filter, racesRepo_compile(filter))>>])
    /\ UNCHANGED now

\* a direct call of applyFilter and applySorting of eventsRepo, and of the validation
\* of the filter
EventsCompile ==
    /\ pc = "idle"
    /\ \E filter \in {Nil} \cup {Some(g) : g \in EventFilters} :
         Return("eventsRepo.compile", "live", filter,
                [resp |-> Nil,
                 err |-> ListEventsRequest_Validate([Filter |-> filter]),
                 repoCalls |-> <<RepoCall("compile", filter, eventsRepo_compile(filter))>>])
    /\ UNCHANGED now

\* a direct call of (*ListRacesRequestFilter).Validate
RacesValidate ==
    /\ pc = "idle"
    /\ \E f \in ValidatedRaceFilters :
         Return("ListRacesRequestFilter.Validate", "live", Some(f),
                [resp |-> Nil, err |-> RacesFilter_Validate(f), repoCalls |-> <<>>])
    /\ UNCHANGED now

\* a direct call of (*ListEventsRequestFilter).Validate
EventsValidate ==
    /\ pc = "idle"
    /\ \E f \in ValidatedEventFilters :
         Return("ListEventsRequestFilter.Validate", "live", Some(f),
                [resp |-> Nil, err |-> EventsFilter_Validate(f), repoCalls |-> <<>>])
    /\ UNCHANGED now

\* the client repeats the list call that has just returned: same handler, same context,
\* same request
ListAgain ==
    /\ pc = "returned"
    /\ \/ /\ op = "ListRaces"
          /\ \E fault \in DbFaults :
                Return("ListRaces", ctx, req, racingService_ListRaces(ctx, req, races, fault))
          /\ UNCHANGED now
       \/ /\ op = "ListEvents"
          /\ \E fault \in DbFaults :
                LET queried == IF entryChecks(ctx, req) # Nil THEN [rows |-> <<>>]
                               ELSE eventsRepo_query(events, req[1].Filter, fault)
                IN  \E samples \in Samples(now, Len(queried.rows)) :
                      /\ Return("ListEvents", ctx, req,
                                sportsService_ListEvents(ctx, req, queried, samples))
                      /\ now' = IF samples = <<>> THEN now ELSE samples[Len(samples)]

\* the client takes the response
Respond ==
    /\ pc = "returned"
    /\ pc' = "idle"
    /\ op' = "none" /\ ctx' = "live" /\ req' = Nil /\ resp' = Nil /\ err' = Nil
    /\ repoCalls' = <<>>
    /\ UNCHANGED <<races, events, now>>
    /\ UNCHANGED goVars

\* time passes between two calls
Tick ==
    /\ pc = "idle"
    /\ now < MaxTime
    /\ now' = now + 1
    /\ UNCHANGED <<races, events, pc, op, ctx, req, resp, err, repoCalls>>
    /\ UNCHANGED goVars

\* the services
Next == ListRaces \/ GetRace \/ ListEvents \/ GetEvent \/ ListAgain \/ Respond \/ Tick

Spec == Init /\ [][Next]_vars

\* the repositories, called directly over any table
NextRepo == RacesList \/ EventsList \/ Respond

SpecRepo == InitRepo /\ [][NextRepo]_vars

\* the query builders and the validators, called directly
NextQuery == RacesCompile \/ EventsCompile \/ RacesValidate \/ EventsValidate \/ Respond

SpecQuery == Init /\ [][NextQuery]_vars

(***************************************************************************)
(* Goroutines that validate one filter, or initialise the repositories, at      *)
(* the same time.                                                          *)
(***************************************************************************)
\* the filters several goroutines validate at once, the lists one longer than allowed
\* among them
SharedFilters ==
    [MeetingIds : SeqsUpTo(MeetingIdValues, MaxIds) \cup {[i \in 1..(MaxMeetingIDs + 1) |-> i]},
     VisibleOnly : {Nil}, SortField : {Nil}, SortDirection : {Nil}]
    \cup
    [SportTypes : SeqsUpTo(SportTypeValues, MaxIds)
                    \cup {[i \in 1..(MaxSportTypes + 1) |-> Repeat(<<"a">>, i)]},
     VisibleOnly : {Nil}, SortField : {Nil, Some(Undeclared)}, SortDirection : {Nil}]

\* the errors of the statements of one run of seed, and what seed can return in each
\* repository; the body of (*racesRepo).seed is not to be seen, it returns any of them
StmtErrs == [1..(MaxRows + 1) -> {Nil, NewError(LibText.dbClosed)}]
SeedReturns(r) ==
    IF r = "eventsRepo" THEN {eventsRepo_seed(s) : s \in StmtErrs}
    ELSE {Nil, NewError(LibText.dbClosed)}

\* the variables of the calls of the handlers
callVars == <<races, events, now, pc, op, ctx, req, resp, err, repoCalls>>

\* the services after start-up, with or without a filter shared by the goroutines
InitValidate ==
    /\ races = Seeded(RaceRowSeq)
    /\ events = Seeded(EventRowSeq)
    /\ now = 0
    /\ pc = "idle"
    /\ NoCall
    /\ sharedFilter \in {Nil} \cup {Some(f) : f \in SharedFilters}
    /\ NoGoroutine

\* a goroutine calls Validate on the shared filter
ValidateCall ==
    /\ sharedFilter # Nil
    /\ \E g \in Goroutines :
         /\ goroutines[g].pc = "idle"
         /\ goroutines' = [goroutines EXCEPT
                             ![g] = [idleGoroutine EXCEPT !.pc = "len", !.call = "Validate"]]
    /\ UNCHANGED <<callVars, sharedFilter, once, seedErr>>

\* the goroutine tests the length of the list of category ids and makes its map seen
ValidateEnter ==
    /\ \E g \in Goroutines :
         /\ goroutines[g].pc = "len"
         /\ goroutines' = [goroutines EXCEPT
                             ![g] = IF "MeetingIds" \in DOMAIN sharedFilter[1]
                                    THEN validateMeetingIds_enter(sharedFilter[1], @)
                                    ELSE validateSportTypes_enter(sharedFilter[1], @)]
    /\ UNCHANGED <<callVars, sharedFilter, once, seedErr>>

\* one pass of the loop over the category ids
ValidatePass ==
    /\ \E g \in Goroutines :
         /\ goroutines[g].pc = "range"
         /\ goroutines[g].i <= Len(IF "MeetingIds" \in DOMAIN sharedFilter[1]
                                   THEN sharedFilter[1].MeetingIds ELSE sharedFilter[1].SportTypes)
         /\ LET after == IF "MeetingIds" \in DOMAIN sharedFilter[1]
                         THEN validateMeetingIds_pass(sharedFilter[1], goroutines[g])
                         ELSE validateSportTypes_pass(sharedFilter[1], goroutines[g])
            IN  /\ sharedFilter' = Some(after.filter)
                /\ goroutines' = [goroutines EXCEPT ![g] = after.local]
    /\ UNCHANGED <<callVars, once, seedErr>>

\* the loop is over: the rest of Validate
ValidateRest ==
    /\ \E g \in Goroutines :
         /\ goroutines[g].pc = "range"
         /\ goroutines[g].i > Len(IF "MeetingIds" \in DOMAIN sharedFilter[1]
                                  THEN sharedFilter[1].MeetingIds ELSE sharedFilter[1].SportTypes)
         /\ goroutines' = [goroutines EXCEPT ![g] = Validate_rest(sharedFilter[1], @)]
    /\ UNCHANGED <<callVars, sharedFilter, once, seedErr>>

\* the caller of the goroutine has its result; the goroutine is free for another call
GoReturn ==
    /\ \E g \in Goroutines :
         /\ goroutines[g].pc = "returned"
         /\ goroutines' = [goroutines EXCEPT ![g] = idleGoroutine]
    /\ UNCHANGED <<callVars, sharedFilter, once, seedErr>>

\* ListRaces and ListEvents, called when no filter is shared
ListRacesUnshared == sharedFilter = Nil /\ ListRaces
ListEventsUnshared == sharedFilter = Nil /\ ListEvents

\* the validators run by several goroutines on one filter, and the two list handlers
NextValidate ==
    \/ ValidateCall \/ ValidateEnter \/ ValidatePass \/ ValidateRest \/ GoReturn
    \/ ListRacesUnshared \/ ListEventsUnshared \/ Respond

SpecValidate == InitValidate /\ [][NextValidate]_vars

\* a goroutine calls Init on a repository: var err error
InitCall ==
    /\ \E g \in Goroutines, r \in Repos :
         /\ goroutines[g].pc = "idle"
         /\ goroutines' = [goroutines EXCEPT
                             ![g] = [idleGoroutine EXCEPT !.pc = "Do", !.call = "Init",
                                                          !.repo = r]]
    /\ UNCHANGED <<callVars, sharedFilter, once, seedErr>>

\* r.init.Do(func): the first goroutine to get there runs func; one that gets there
\* while func runs waits for its end; after that Do returns without running its argument
InitDo ==
    /\ \E g \in Goroutines :
         /\ goroutines[g].pc = "Do"
         /\ once[goroutines[g].repo] # "running"
         /\ IF once[goroutines[g].repo] = "fresh"
            THEN /\ once' = [once EXCEPT ![goroutines[g].repo] = "running"]
                 /\ goroutines' = [goroutines EXCEPT ![g].pc = "seed"]
            ELSE /\ once' = once
                 /\ goroutines' = [goroutines EXCEPT ![g].pc = "return"]
    /\ UNCHANGED <<callVars, sharedFilter, seedErr>>

\* func() { err = r.seed() } in the goroutine that runs it
InitSeed ==
    /\ \E g \in Goroutines :
         /\ goroutines[g].pc = "seed"
         /\ \E e \in SeedReturns(goroutines[g].repo) :
              /\ goroutines' = [goroutines EXCEPT ![g].err = e, ![g].pc = "return"]
              /\ seedErr' = [seedErr EXCEPT ![goroutines[g].repo] = e]
              /\ once' = [once EXCEPT ![goroutines[g].repo] = "done"]
    /\ UNCHANGED <<callVars, sharedFilter>>

\* return err
InitReturn ==
    /\ \E g \in Goroutines :
         /\ goroutines[g].pc = "return"
         /\ goroutines' = [goroutines EXCEPT ![g].pc = "returned"]
    /\ UNCHANGED <<callVars, sharedFilter, once, seedErr>>

\* the start-up of the repositories by several goroutines
NextInit == InitCall \/ InitDo \/ InitSeed \/ InitReturn \/ GoReturn

SpecInit == Init /\ [][NextInit]_vars

(***************************************************************************)
(* Properties.                                                             *)
(***************************************************************************)
Handlers == {"ListRaces", "GetRace", "ListEvents", "GetEvent"}

\* errors.Is(e, target): target is e or one of the errors e wraps
ErrorsIs(e, target) ==
    \E k \in 0..(Len(e) - 1) : SubSeq(e, k + 1, Len(e)) = target

\* C1: a call of ListRaces, GetRace, ListEvents or GetEvent whose context is already
\* cancelled at entry returns a cancellation error and a nil response and makes no call
\* on the repository, whatever the request is.
C1_CancelledShortCircuits ==
    (pc = "returned" /\ op \in Handlers /\ ctx = "cancelled") =>
        /\ resp = Nil
        /\ repoCalls = <<>>
        /\ err # Nil
        /\ err[1] = SvcRacingText.reqCancelled
        /\ ErrorsIs(err, NewError(LibText.ctxCanceled))

\* a cancelled call that would otherwise have read the stored event 1
C1_Witness ==
    /\ pc = "returned" /\ op = "GetEvent" /\ ctx = "cancelled"
    /\ req = Some([Id |-> 1]) /\ Len(events) >= 1
    /\ err # Nil /\ repoCalls = <<>>

\* C2: ListRaces with a live context and a request whose filter fails validation returns
\* a "validation failed" error that wraps the error of the validator, returns a nil
\* response and makes no call of List on the repository.
C2_InvalidFilterRejected ==
    (/\ pc = "returned" /\ op = "ListRaces" /\ ctx = "live" /\ req # Nil
     /\ ListRacesRequest_Validate(req[1]) # Nil) =>
        /\ resp = Nil
        /\ repoCalls = <<>>
        /\ err # Nil
        /\ err[1] = SvcRacingText.validationFailed
        /\ Unwrap(err) = ListRacesRequest_Validate(req[1])
        /\ Contains(ErrorText(err), <<"v","a","l","i","d","a","t","i","o","n"," ",
                                      "f","a","i","l","e","d">>)

\* ListRaces rejected a filter with a duplicated meeting id
C2_Witness ==
    /\ pc = "returned" /\ op = "ListRaces" /\ ctx = "live" /\ req # Nil
    /\ req[1].Filter # Nil
    /\ req[1].Filter[1].MeetingIds = <<1, 1>>
    /\ err # Nil /\ err[1] = SvcRacingText.validationFailed /\ repoCalls = <<>>

\* C3: every filter ListEvents hands to List of the repository is one that the
\* validation of the filter accepts.
C3_ValidateThenBuild ==
    (pc = "returned" /\ op = "ListEvents") =>
        \A i \in 1..Len(repoCalls) :
            \/ repoCalls[i].arg = Nil
            \/ EventsFilter_Validate(repoCalls[i].arg[1]) = Nil

\* C4: GetRace and GetEvent with a live context and a request whose id is not positive
\* return an error and a nil response and make no call of GetByID on the repository.
C4_NonPositiveIdRejected ==
    (/\ pc = "returned" /\ op \in {"GetRace", "GetEvent"} /\ ctx = "live" /\ req # Nil
     /\ req[1].Id <= 0) =>
        /\ err # Nil
        /\ resp = Nil
        /\ repoCalls = <<>>

\* GetEvent rejected the id 0
C4_Witness ==
    /\ pc = "returned" /\ op = "GetEvent" /\ ctx = "live"
    /\ req = Some([Id |-> 0])
    /\ err # Nil /\ resp = Nil /\ repoCalls = <<>>

Txt_invalidRequest == <<"i","n","v","a","l","i","d"," ","r","e","q","u","e","s","t">>

\* C5: GetEvent with a non-positive id returns an error whose text contains
\* "invalid request", and a nil response.
C5_InvalidRequestText ==
    (/\ pc = "returned" /\ op = "GetEvent" /\ ctx = "live" /\ req # Nil
     /\ req[1].Id <= 0) =>
        /\ err # Nil
        /\ Contains(ErrorText(err), Txt_invalidRequest)
        /\ resp = Nil

CompileOps == {"racesRepo.compile", "eventsRepo.compile"}
ListOps == {"racesRepo.List", "eventsRepo.List"}
RacesOps == {"racesRepo.compile", "racesRepo.List"}

\* the category ids of the filter of a call: its meeting ids or its sport types
FilterIds(name, filter) ==
    IF filter = Nil THEN <<>>
    ELSE IF name \in RacesOps THEN filter[1].MeetingIds
    ELSE filter[1].SportTypes

\* visibleOnly is present and true
FilterVisible(filter) == filter # Nil /\ filter[1].VisibleOnly = Some(TRUE)

\* the number of places of s where sub occurs
CountSub(s, sub) ==
    Cardinality({i \in 1..(Len(s) - Len(sub) + 1) : SubSeq(s, i, i + Len(sub) - 1) = sub})

\* C6: for every filter, nil included, of either catalog the statement applyFilter and
\* applySorting produce has exactly len(args) placeholders '?', and args is the list of
\* the category ids of the filter, in the order of the filter.
C6_PlaceholdersMatchArgs ==
    (pc = "returned" /\ op \in CompileOps) =>
        /\ CountChar(repoCalls[1].query, "?") = Len(repoCalls[1].args)
        /\ repoCalls[1].args = FilterIds(op, req)

\* a sports filter of two sport types, one of them the text "?"
C6_Witness ==
    /\ pc = "returned" /\ op = "eventsRepo.compile" /\ req # Nil
    /\ req[1].SportTypes = << <<"?">>, <<"a">> >>
    /\ CountChar(repoCalls[1].query, "?") = 2
    /\ repoCalls[1].args = << <<"?">>, <<"a">> >>

\* C7: the text of the compiled statement depends only on the number of category ids,
\* on visibleOnly, on sortField and on sortDirection: a filter that differs from the
\* compiled one only in the values of its category ids compiles to the same text.
C7_TextIndependentOfValues ==
    (pc = "returned" /\ op \in CompileOps /\ req # Nil) =>
        IF op = "racesRepo.compile"
        THEN \A ids \in [1..Len(req[1].MeetingIds) -> MeetingIdValues] :
                racesRepo_compile(Some([req[1] EXCEPT !.MeetingIds = ids])).query
                    = repoCalls[1].query
        ELSE \A ids \in [1..Len(req[1].SportTypes) -> SportTypeValues] :
                eventsRepo_compile(Some([req[1] EXCEPT !.SportTypes = ids])).query
                    = repoCalls[1].query

\* a racing filter of two meeting ids was compiled
C7_Witness ==
    /\ pc = "returned" /\ op = "racesRepo.compile" /\ req # Nil
    /\ req[1].MeetingIds = <<2, 1>>
    /\ repoCalls[1].args = <<2, 1>>
    /\ CountChar(repoCalls[1].query, "2") = 0

\* the base statement and the name of the category column of a call
BaseOf(name) == IF name \in RacesOps THEN racesListQuery ELSE eventsListQuery
CategoryOf(name) ==
    IF name \in RacesOps THEN <<"m","e","e","t","i","n","g","_","i","d">>
    ELSE <<"s","p","o","r","t","_","t","y","p","e">>

Txt_WHERE == <<" ","W","H","E","R","E"," ">>
Txt_IN == <<" ","I","N"," ","(">>
Txt_AND_visible == <<" ","A","N","D"," ","v","i","s","i","b","l","e"," ","="," ","1">>
Txt_visible == <<"v","i","s","i","b","l","e"," ","="," ","1">>
Txt_ORDER_BY == <<" ","O","R","D","E","R"," ","B","Y"," ">>

\* C8: applyFilter appends a WHERE clause iff the list of category ids is not empty or
\* visibleOnly is present and true; with both there is one WHERE, the IN clause first and
\* "visible = 1" joined by AND; with neither the statement is the base statement and
\* there are no parameters.
C8_WhereClause ==
    (pc = "returned" /\ op \in CompileOps) =>
        LET q   == repoCalls[1].filtered
            n   == Len(FilterIds(op, req))
            vis == FilterVisible(req)
            inClause == CategoryOf(op) \o Txt_IN \o sqlPlaceholders(n) \o <<")">>
        IN  /\ CountSub(q, Txt_WHERE) = (IF n > 0 \/ vis THEN 1 ELSE 0)
            /\ SubSeq(q, 1, Len(BaseOf(op))) = BaseOf(op)
            /\ (n > 0 /\ vis) => q = BaseOf(op) \o Txt_WHERE \o inClause \o Txt_AND_visible
            /\ (n > 0 /\ ~vis) => q = BaseOf(op) \o Txt_WHERE \o inClause
            /\ (n = 0 /\ vis) => q = BaseOf(op) \o Txt_WHERE \o Txt_visible
            /\ (n = 0 /\ ~vis) => (q = BaseOf(op) /\ repoCalls[1].args = <<>>)

\* a filter with two meeting ids and visibleOnly true: both predicates are emitted
C8_Witness ==
    /\ pc = "returned" /\ op = "racesRepo.compile" /\ req # Nil
    /\ Len(req[1].MeetingIds) = 2 /\ req[1].VisibleOnly = Some(TRUE)
    /\ CountSub(repoCalls[1].filtered, Txt_WHERE) = 1
    /\ CountSub(repoCalls[1].filtered, Txt_AND_visible) = 1

\* the column and the direction the claim gives for a filter
ExpectedColumn(name, filter) ==
    IF filter = Nil \/ filter[1].SortField = Nil
    THEN <<"a","d","v","e","r","t","i","s","e","d","_","s","t","a","r","t","_","t","i","m","e">>
    ELSE IF filter[1].SortField[1] = "NAME" THEN <<"n","a","m","e">>
    ELSE IF filter[1].SortField[1] = "NUMBER" /\ name \in RacesOps
    THEN <<"n","u","m","b","e","r">>
    ELSE IF filter[1].SortField[1] = "SPORT_TYPE" /\ name \notin RacesOps
    THEN <<"s","p","o","r","t","_","t","y","p","e">>
    ELSE <<"a","d","v","e","r","t","i","s","e","d","_","s","t","a","r","t","_","t","i","m","e">>
ExpectedDirection(filter) ==
    IF filter # Nil /\ filter[1].SortDirection = Some("DESC")
    THEN <<"D","E","S","C">>
    ELSE <<"A","S","C">>

\* C9: applySorting appends exactly one ORDER BY clause at the end of the statement; the
\* column is name, number (sport_type for events) or advertised_start_time according to
\* sortField, advertised_start_time when sortField is absent or no declared member; the
\* direction is DESC iff sortDirection is present and is DESC, ASC otherwise.
C9_OrderByClause ==
    (pc = "returned" /\ op \in CompileOps) =>
        /\ repoCalls[1].query =
              repoCalls[1].filtered \o Txt_ORDER_BY \o ExpectedColumn(op, req)
              \o <<" ">> \o ExpectedDirection(req)
        /\ CountSub(repoCalls[1].query, Txt_ORDER_BY) = 1

\* a filter with a sort direction that is no declared member: ASC is appended
C9_Witness ==
    /\ pc = "returned" /\ op = "racesRepo.compile" /\ req # Nil
    /\ req[1].SortField = Some("NUMBER") /\ req[1].SortDirection = Some(Undeclared)
    /\ HasSuffix(repoCalls[1].query,
                 Txt_ORDER_BY \o <<"n","u","m","b","e","r"," ","A","S","C">>)

\* the places of the rows of the table that satisfy the predicates of the filter
Matching(name, table, filter) ==
    {i \in 1..Len(table) :
        /\ Len(FilterIds(name, filter)) > 0 =>
             \E j \in 1..Len(FilterIds(name, filter)) :
                (IF name \in RacesOps THEN table[i].meeting_id ELSE table[i].sport_type)
                    = FilterIds(name, filter)[j]
        /\ FilterVisible(filter) => table[i].visible}

\* C10: List returns exactly the records that satisfy the filter: every returned record
\* has its category among the category ids of the filter when there are some and is
\* visible when visibleOnly is true, and no stored record that satisfies the filter is
\* missing or returned twice.
C10_ListReturnsExactlyMatching ==
    (pc = "returned" /\ op \in ListOps /\ err = Nil) =>
        LET table == IF op = "racesRepo.List" THEN races ELSE events
            want  == Matching(op, table, req)
        IN  /\ {resp[k].Id : k \in 1..Len(resp)} = {table[i].id : i \in want}
            /\ Len(resp) = Cardinality(want)

\* the key of a returned record under the sort field of the filter, and whether it is text
SortKeyIsText(name, filter) ==
    ExpectedColumn(name, filter) \in {<<"n","a","m","e">>, <<"s","p","o","r","t","_","t","y","p","e">>}
SortKey(name, filter, rec) ==
    LET col == ExpectedColumn(name, filter)
    IN  IF col = <<"n","a","m","e">> THEN rec.Name
        ELSE IF col = <<"n","u","m","b","e","r">> THEN rec.Number
        ELSE IF col = <<"s","p","o","r","t","_","t","y","p","e">> THEN rec.SportType
        ELSE rec.AdvertisedStartTime.seconds

\* a <= b for two keys
KeyLeq(isText, a, b) == IF isText THEN a = b \/ StrLess(a, b) ELSE a <= b

\* C11: the sequence List returns is sorted by the sort field of the filter in its
\* direction: of two adjacent records a, b, key(a) <= key(b) under ASC and
\* key(a) >= key(b) under DESC; by ascending advertised start time when the filter is nil
\* or names no sort.
C11_ListSorted ==
    (pc = "returned" /\ op \in ListOps /\ err = Nil) =>
        \A k \in 1..(Len(resp) - 1) :
            LET a == SortKey(op, req, resp[k])
                b == SortKey(op, req, resp[k + 1])
            IN  IF ExpectedDirection(req) = <<"D","E","S","C">>
                THEN KeyLeq(SortKeyIsText(op, req), b, a)
                ELSE KeyLeq(SortKeyIsText(op, req), a, b)

\* races stored as a, b were listed by name, descending: b comes first
C11_Witness ==
    /\ pc = "returned" /\ op = "racesRepo.List" /\ err = Nil /\ req # Nil
    /\ req[1].SortField = Some("NAME") /\ req[1].SortDirection = Some("DESC")
    /\ Len(resp) = 2
    /\ resp[1].Id = 2 /\ resp[1].Name = <<"b">>
    /\ resp[2].Id = 1 /\ resp[2].Name = <<"a">>

\* C12: the status of the event GetEvent returns is CLOSED iff its advertised start time
\* is strictly before the instant of the call, OPEN otherwise: an event that starts at
\* that very instant is OPEN, one that started one unit of time earlier is CLOSED.
C12_StatusDerivation ==
    (pc = "returned" /\ op = "GetEvent" /\ resp # Nil) =>
        LET e == resp[1].Event[1]
        IN  /\ e.Status \in {EventStatus_OPEN, EventStatus_CLOSED}
            /\ e.Status = EventStatus_CLOSED <=> e.AdvertisedStartTime.seconds < now
            /\ e.AdvertisedStartTime.seconds = now => e.Status = EventStatus_OPEN
            /\ e.AdvertisedStartTime.seconds = now - 1 => e.Status = EventStatus_CLOSED

\* the event that starts at instant 2 was read at instant 2
C12_Witness ==
    /\ pc = "returned" /\ op = "GetEvent" /\ resp # Nil
    /\ now = 2
    /\ resp[1].Event[1].AdvertisedStartTime.seconds = 2
    /\ resp[1].Event[1].Status = "OPEN"

\* C13: every race ListRaces returns from racesRepo.List carries the derived status:
\* CLOSED when its advertised start time is before the time of the call, OPEN otherwise.
C13_RacesCarryStatus ==
    (pc = "returned" /\ op = "ListRaces" /\ resp # Nil) =>
        \A k \in 1..Len(resp[1].Races) :
            resp[1].Races[k].Status =
                (IF resp[1].Races[k].AdvertisedStartTime.seconds < now
                 THEN "CLOSED" ELSE "OPEN")

\* C14: in one call of eventsRepo.List there is a single instant t such that every
\* returned event is CLOSED iff its start time is strictly before t: events of equal
\* start time have equal statuses and, in a listing ascending by start time, no OPEN
\* event comes before a CLOSED one.
C14_SingleReferenceInstant ==
    (pc = "returned" /\ op = "eventsRepo.List" /\ err = Nil) =>
        \E t \in 0..(MaxTime + 1) :
            \A k \in 1..Len(resp) :
                resp[k].Status = "CLOSED" <=> resp[k].AdvertisedStartTime.seconds < t

\* C15: a list call repeated with the same request against the unchanged tables, both
\* calls succeeding, returns the same response: the same records in the same order,
\* equal in every field, the status included.
C15_ListIdempotent ==
    [][(/\ pc = "returned" /\ pc' = "returned"
        /\ op \in {"ListRaces", "ListEvents"}
        /\ err = Nil /\ err' = Nil) => resp' = resp]_vars

\* C20: ListRaces rejects every filter whose sort field is present and is none of
\* ADVERTISED_START_TIME, NAME, NUMBER or whose sort direction is present and is neither
\* ASC nor DESC: no such filter reaches List of the repository.
C20_UndeclaredSortRejected ==
    (/\ pc = "returned" /\ op = "ListRaces" /\ ctx = "live" /\ req # Nil
     /\ req[1].Filter # Nil
     /\ \/ req[1].Filter[1].SortField \notin
             {Nil, Some("ADVERTISED_START_TIME"), Some("NAME"), Some("NUMBER")}
        \/ req[1].Filter[1].SortDirection \notin {Nil, Some("ASC"), Some("DESC")}) =>
        /\ err # Nil
        /\ resp = Nil
        /\ repoCalls = <<>>

RacesValidateOp == "ListRacesRequestFilter.Validate"
EventsValidateOp == "ListEventsRequestFilter.Validate"
ValidateOps == {RacesValidateOp, EventsValidateOp}

\* the category ids of the validated filter, as the validator compares them: the meeting
\* ids, the sport types without the white space around them
CategoryIds(name, filter) ==
    IF name = RacesValidateOp THEN filter[1].MeetingIds
    ELSE [i \in 1..Len(filter[1].SportTypes) |-> TrimSpace(filter[1].SportTypes[i])]

\* the text of a category id in a message
IdText(name, v) == IF name = RacesValidateOp THEN Itoa(v) ELSE v

\* the places of the ids that are invalid by themselves, and of those that repeat an
\* earlier id
InvalidAt(name, ids) ==
    {i \in 1..Len(ids) :
        IF name = RacesValidateOp THEN ids[i] < 1 \/ ids[i] > 999999
        ELSE ids[i] = <<>> \/ Len(ids[i]) > 100}
RepeatedAt(ids) == {i \in 1..Len(ids) : \E j \in 1..(i - 1) : ids[j] = ids[i]}

\* the largest number of category ids of a filter
MaxCount(name) == IF name = RacesValidateOp THEN 100 ELSE 50

\* the least element of a non-empty set of numbers
Least(S) == CHOOSE i \in S : \A j \in S : i <= j

\* the error of the validation of the category ids in the error Validate returned: Nil
\* when that validation passed
IdsError(e) ==
    IF /\ e # Nil
       /\ e[1] \in {<<"m","e","e","t","i","n","g","_","i","d","s"," ","v","a","l","i","d",
                     "a","t","i","o","n"," ","f","a","i","l","e","d",":"," ">>,
                   <<"s","p","o","r","t","_","t","y","p","e","s"," ","v","a","l","i","d",
                     "a","t","i","o","n"," ","f","a","i","l","e","d",":"," ">>}
    THEN ErrorText(Unwrap(e))
    ELSE <<>>

Txt_position == <<"p","o","s","i","t","i","o","n"," ">>
Txt_duplicate == <<"d","u","p","l","i","c","a","t","e">>
Txt_tooMany == <<"t","o","o"," ","m","a","n","y">>

\* C16: the validation of a filter whose list of category ids repeats a value, every id
\* being valid by itself, fails with a duplicate error that names the repeated value and
\* the position of one of its occurrences.
C16_DuplicateNamesValueAndPosition ==
    (/\ pc = "returned" /\ op \in ValidateOps
     /\ Len(CategoryIds(op, req)) <= MaxCount(op)
     /\ InvalidAt(op, CategoryIds(op, req)) = {}
     /\ RepeatedAt(CategoryIds(op, req)) # {}) =>
        LET ids == CategoryIds(op, req)
            k   == Least(RepeatedAt(ids))
        IN  /\ err # Nil
            /\ Contains(IdsError(err), Txt_duplicate)
            /\ Contains(IdsError(err), IdText(op, ids[k]))
            /\ \E j \in {i \in 1..Len(ids) : ids[i] = ids[k]} :
                 \/ Contains(IdsError(err), Txt_position \o Itoa(j - 1))
                 \/ Contains(IdsError(err), Txt_position \o Itoa(j))

\* C17: a list of more than 100 meeting ids, or of more than 50 sport types, fails the
\* validation with a too-many error that gives the length of the list, also when the list
\* holds invalid or repeated ids; a list of exactly 100 (50) valid distinct ids passes.
C17_TooManyValues ==
    (pc = "returned" /\ op \in ValidateOps) =>
        LET ids == CategoryIds(op, req)
        IN  /\ Len(ids) > MaxCount(op) =>
                /\ err # Nil
                /\ Contains(IdsError(err), Txt_tooMany)
                /\ Contains(IdsError(err), Itoa(Len(ids)))
                /\ ~Contains(IdsError(err), Txt_duplicate)
                /\ ~Contains(IdsError(err), Txt_position)
            /\ (/\ Len(ids) = MaxCount(op)
                /\ InvalidAt(op, ids) = {} /\ RepeatedAt(ids) = {}) => IdsError(err) = <<>>

\* 101 meeting ids, the first of them 0 and the others all 1: too many is the error
C17_Witness ==
    /\ pc = "returned" /\ op = RacesValidateOp
    /\ Len(req[1].MeetingIds) = 101
    /\ req[1].MeetingIds[1] = 0 /\ req[1].MeetingIds[2] = 1 /\ req[1].MeetingIds[3] = 1
    /\ Contains(IdsError(err), Txt_tooMany)

\* C18: validateMeetingIds accepts a list of at most 100 pairwise distinct ids iff every
\* id is in 1..999999; otherwise its error gives the position and the value of the first
\* id out of that range, as invalid when the id is 0 or negative and as too large when it
\* is above 999999.
C18_MeetingIdRange ==
    (/\ pc = "returned" /\ op = RacesValidateOp
     /\ Len(req[1].MeetingIds) <= 100
     /\ RepeatedAt(req[1].MeetingIds) = {}) =>
        LET ids == req[1].MeetingIds
            bad == InvalidAt(op, ids)
        IN  /\ bad = {} <=> err = Nil
            /\ bad # {} =>
                 LET k == Least(bad)
                 IN  /\ Contains(IdsError(err),
                                 Txt_position \o Itoa(k - 1) \o <<":", " ">> \o Itoa(ids[k]))
                     /\ ids[k] <= 0 =>
                          Contains(IdsError(err), <<"i","n","v","a","l","i","d">>)
                     /\ ids[k] > 999999 =>
                          Contains(IdsError(err), <<"t","o","o"," ","l","a","r","g","e">>)

\* the ids 2, 1000000, 0: the error is about 1000000 at position 1
C18_Witness ==
    /\ pc = "returned" /\ op = RacesValidateOp
    /\ req[1].MeetingIds = <<2, 1000000, 0>>
    /\ Contains(IdsError(err), <<"t","o","o"," ","l","a","r","g","e"," ","a","t"," ","p","o",
                                 "s","i","t","i","o","n"," ","1",":"," ","1","0","0","0",
                                 "0","0","0">>)

\* C19: validateSportTypes rejects a list of at most 50 sport types iff one of them is
\* empty once the white space around it is removed, or is then longer than 100, or is
\* then equal to an earlier one; the error gives the position of the empty or too long
\* sport type when that is the first fault, and is a duplicate error otherwise.
C19_SportTypesTrimmed ==
    (/\ pc = "returned" /\ op = EventsValidateOp
     /\ Len(req[1].SportTypes) <= 50) =>
        LET ids    == CategoryIds(op, req)
            bad    == InvalidAt(op, ids)
            faults == bad \cup RepeatedAt(ids)
        IN  /\ faults = {} <=> IdsError(err) = <<>>
            /\ faults # {} =>
                 LET k == Least(faults)
                 IN  /\ k \in bad => Contains(IdsError(err), Txt_position \o Itoa(k - 1))
                     /\ (k \in bad /\ ids[k] = <<>>) =>
                          Contains(IdsError(err), <<"e","m","p","t","y">>)
                     /\ (k \in bad /\ ids[k] # <<>>) =>
                          Contains(IdsError(err), <<"t","o","o"," ","l","o","n","g">>)
                     /\ k \notin bad => Contains(IdsError(err), Txt_duplicate \o
                          <<" ","s","p","o","r","t"," ","t","y","p","e",":"," ">> \o ids[k])

\* "a" and " a " in one list: a duplicate
C19_Witness ==
    /\ pc = "returned" /\ op = EventsValidateOp
    /\ req[1].SportTypes = << <<"a">>, <<" ", "a", " ">> >>
    /\ Contains(IdsError(err), Txt_duplicate)

Txt_invalidSortField == <<"i","n","v","a","l","i","d"," ","s","o","r","t"," ","f","i","e","l","d">>
Txt_invalidSortDirection ==
    <<"i","n","v","a","l","i","d"," ","s","o","r","t"," ","d","i","r","e","c","t","i","o","n">>

\* the sort field, the sort direction of a sports filter is present and no declared member
BadSortField(f) ==
    f.SortField \notin {Nil, Some("ADVERTISED_START_TIME"), Some("NAME"), Some("SPORT_TYPE")}
BadSortDirection(f) == f.SortDirection \notin {Nil, Some("ASC"), Some("DESC")}

\* C21: for a sports filter whose sport types are valid, Validate returns an error iff
\* the sort field is present and none of ADVERTISED_START_TIME, NAME, SPORT_TYPE or the
\* sort direction is present and neither ASC nor DESC; it is the invalid-sort-field
\* error when the sort field is invalid, the sort direction being invalid or not.
C21_SortValidation ==
    (/\ pc = "returned" /\ op = EventsValidateOp
     /\ Len(req[1].SportTypes) <= 50
     /\ InvalidAt(op, CategoryIds(op, req)) \cup RepeatedAt(CategoryIds(op, req)) = {}) =>
        /\ err # Nil <=> (BadSortField(req[1]) \/ BadSortDirection(req[1]))
        /\ BadSortField(req[1]) =>
             /\ Contains(ErrorText(err), Txt_invalidSortField)
             /\ ~Contains(ErrorText(err), Txt_invalidSortDirection)
        /\ (~BadSortField(req[1]) /\ BadSortDirection(req[1])) =>
             Contains(ErrorText(err), Txt_invalidSortDirection)

\* a filter of one valid sport type whose sort field and sort direction are both
\* undeclared: the error is about the sort field
C21_Witness ==
    /\ pc = "returned" /\ op = EventsValidateOp
    /\ req[1].SportTypes = << <<"a">> >>
    /\ req[1].SortField = Some("99") /\ req[1].SortDirection = Some("99")
    /\ Contains(ErrorText(err), Txt_invalidSortField)

Txt_notFound == <<"n","o","t"," ","f","o","u","n","d">>

\* the error reports that no row has the id; the error is a failure of the storage
IsNotFound(e) ==
    /\ Contains(ErrorText(e), Txt_notFound)
    /\ ~ErrorsIs(e, NewError(LibText.dbClosed))
IsStorageFailure(e) ==
    /\ ErrorsIs(e, NewError(LibText.dbClosed))
    /\ ~Contains(ErrorText(e), Txt_notFound)

PassesValidation(name, in) ==
    CASE name = "ListRaces" -> ListRacesRequest_Validate(in) = Nil
      [] name = "ListEvents" -> ListEventsRequest_Validate(in) = Nil
      [] OTHER -> in.Id > 0

\* the argument a handler hands to its repository, and what its response holds
RepoArgOf(name, in) == IF name \in {"ListRaces", "ListEvents"} THEN in.Filter ELSE in.Id
ResponseBody(name, r) ==
    CASE name = "ListRaces" -> r.Races
      [] name = "ListEvents" -> r.Events
      [] name = "GetRace" -> r.Race
      [] OTHER -> r.Event

Txt_failedToRetrieve ==
    <<"f","a","i","l","e","d"," ","t","o"," ","r","e","t","r","i","e","v","e"," ">>

\* C23: a call of one of the four handlers with a live context and a request that is not
\* nil and passes validation makes exactly one call on the repository, with the filter
\* or id of the request; when that call succeeds its result is the body of the response
\* and the error is nil; when it fails the response is nil and the error is the error of
\* the repository wrapped in 'failed to retrieve ...'.
C23_OneRepositoryCall ==
    (/\ pc = "returned" /\ op \in Handlers /\ ctx = "live" /\ req # Nil
     /\ PassesValidation(op, req[1])) =>
        /\ Len(repoCalls) = 1
        /\ repoCalls[1].method = (IF op \in {"ListRaces", "ListEvents"} THEN "List" ELSE "GetByID")
        /\ repoCalls[1].arg = RepoArgOf(op, req[1])
        /\ repoCalls[1].err = Nil =>
             /\ err = Nil /\ resp # Nil
             /\ ResponseBody(op, resp[1]) = repoCalls[1].result
        /\ repoCalls[1].err # Nil =>
             /\ resp = Nil
             /\ Len(err) >= 2
             /\ SubSeq(err[1], 1, Len(Txt_failedToRetrieve)) = Txt_failedToRetrieve
             /\ Unwrap(err) = repoCalls[1].err
             /\ Contains(ErrorText(err), ErrorText(repoCalls[1].err))

\* GetEvent for a stored event when the query fails: the error of the storage, wrapped
C23_Witness ==
    /\ pc = "returned" /\ op = "GetEvent" /\ ctx = "live" /\ req = Some([Id |-> 1])
    /\ Len(repoCalls) = 1 /\ repoCalls[1].err = NewError(LibText.dbClosed)
    /\ resp = Nil /\ Unwrap(err) = NewError(LibText.dbClosed)

\* C24: a list call of a repository during which the iteration over the rows stopped on
\* an error, or the scan of a row failed, returns an error that is not nil.
C24_NoSwallowedStorageError ==
    (/\ pc = "returned" /\ op \in ListOps
     /\ (repoCalls[1].rowsErr # Nil \/ repoCalls[1].scanErr # Nil)) => err # Nil

\* the filter with no category ids and no optional field set
EmptyFilter(name) ==
    IF name \in RacesOps
    THEN [MeetingIds |-> <<>>, VisibleOnly |-> Nil, SortField |-> Nil, SortDirection |-> Nil]
    ELSE [SportTypes |-> <<>>, VisibleOnly |-> Nil, SortField |-> Nil, SortDirection |-> Nil]

Txt_defaultOrder ==
    <<" ","O","R","D","E","R"," ","B","Y"," ","a","d","v","e","r","t","i","s","e","d","_",
      "s","t","a","r","t","_","t","i","m","e"," ","A","S","C">>

\* C26: the nil filter and the empty filter are both valid and compile alike: validation
\* returns nil, applyFilter leaves the base statement as it is, without WHERE and with
\* no parameters, and applySorting appends ORDER BY advertised_start_time ASC.
C26_NilFilterIsEmptyFilter ==
    (/\ pc = "returned" /\ op \in CompileOps
     /\ (req = Nil \/ req = Some(EmptyFilter(op)))) =>
        /\ err = Nil
        /\ repoCalls[1].filtered = BaseOf(op)
        /\ CountSub(repoCalls[1].query, Txt_WHERE) = 0
        /\ repoCalls[1].args = <<>>
        /\ repoCalls[1].query = BaseOf(op) \o Txt_defaultOrder

\* the statement of eventsRepo for the nil filter
C26_Witness ==
    /\ pc = "returned" /\ op = "eventsRepo.compile" /\ req = Nil /\ err = Nil
    /\ repoCalls[1].query = eventsListQuery \o Txt_defaultOrder

\* the words by which the errors of the validation of the category ids name their rule
RuleWords(name) ==
    IF name = RacesValidateOp
    THEN [count |-> Txt_tooMany, first |-> <<"i","n","v","a","l","i","d">>,
          second |-> <<"t","o","o"," ","l","a","r","g","e">>, third |-> Txt_duplicate]
    ELSE [count |-> Txt_tooMany, first |-> <<"e","m","p","t","y">>,
          second |-> <<"t","o","o"," ","l","o","n","g">>, third |-> Txt_duplicate]

\* the rule the first violation of a list of category ids breaks, in the order of the
\* scan: the count, then each id in turn against the first, second and third rule;
\* "none" when the list breaks no rule
FirstViolation(name, ids) ==
    LET bad    == InvalidAt(name, ids)
        faults == bad \cup RepeatedAt(ids)
    IN  IF Len(ids) > MaxCount(name) THEN "count"
        ELSE IF faults = {} THEN "none"
        ELSE IF Least(faults) \notin bad THEN "third"
        ELSE IF name = RacesValidateOp
        THEN (IF ids[Least(faults)] <= 0 THEN "first" ELSE "second")
        ELSE (IF ids[Least(faults)] = <<>> THEN "first" ELSE "second")

\* the rules the text of an error names
RulesNamed(name, text) ==
    {r \in {"count", "first", "second", "third"} : Contains(text, RuleWords(name)[r])}

Txt_sortingFailed ==
    <<"s","o","r","t","i","n","g"," ","v","a","l","i","d","a","t","i","o","n"," ",
      "f","a","i","l","e","d",":"," ">>

\* C27: Validate reports the first violation in the order of its scan: the count of the
\* category ids, then the ids in the order of the list, each against its rules in their
\* order, with the position of the id when the id is invalid by itself; the error of the
\* sorting is reported only when the category ids break no rule.
C27_FirstViolationInScanOrder ==
    (pc = "returned" /\ op \in ValidateOps) =>
        LET ids  == CategoryIds(op, req)
            want == FirstViolation(op, ids)
        IN  /\ want = "none" <=> IdsError(err) = <<>>
            /\ want # "none" => RulesNamed(op, IdsError(err)) = {want}
            /\ want \in {"first", "second"} =>
                 Contains(IdsError(err),
                          Txt_position \o Itoa(Least(InvalidAt(op, ids)) - 1))
            /\ (err # Nil /\ err[1] = Txt_sortingFailed) => want = "none"
            /\ (/\ op = EventsValidateOp /\ want = "none"
                /\ (BadSortField(req[1]) \/ BadSortDirection(req[1]))) =>
                    (err # Nil /\ err[1] = Txt_sortingFailed)

\* the sport types "a", " ", "a" with an undeclared sort field: the error is about the
\* blank sport type at position 1, not about the repeated "a" nor about the sort field
C27_Witness ==
    /\ pc = "returned" /\ op = EventsValidateOp
    /\ req[1].SportTypes = << <<"a">>, <<" ">> >>
    /\ req[1].SortField = Some("99")
    /\ Contains(IdsError(err), <<"e","m","p","t","y">>)
    /\ Contains(IdsError(err), Txt_position \o <<"1">>)

Txt_contextNil ==
    <<"c","o","n","t","e","x","t"," ","c","a","n","n","o","t"," ","b","e"," ","n","i","l">>
Txt_requestNil ==
    <<"r","e","q","u","e","s","t"," ","c","a","n","n","o","t"," ","b","e"," ","n","i","l">>
Txt_cancelled == <<"c","a","n","c","e","l","l","e","d">>

\* C28: the four handlers check, in this order, that the context is not nil, that it is
\* not cancelled, that the request is not nil and that the request is valid, and call
\* the repository only then; the first check that fails gives the error: 'context cannot
\* be nil' for a nil context, the cancellation for a cancelled context whatever the
\* request, 'request cannot be nil' for a nil request on a live context, the error of
\* the validation, without a call on the repository, for an invalid request on a live
\* context; with every error the response is nil.
C28_CheckOrder ==
    (pc = "returned" /\ op \in Handlers) =>
        /\ ctx = "nil" => (ErrorText(err) = Txt_contextNil /\ repoCalls = <<>>)
        /\ ctx = "cancelled" =>
             /\ Contains(ErrorText(err), Txt_cancelled)
             /\ ErrorsIs(err, NewError(LibText.ctxCanceled))
             /\ repoCalls = <<>>
        /\ (ctx = "live" /\ req = Nil) =>
             (ErrorText(err) = Txt_requestNil /\ repoCalls = <<>>)
        /\ (ctx = "live" /\ req # Nil /\ ~PassesValidation(op, req[1])) =>
             /\ err # Nil
             /\ ~Contains(ErrorText(err), Txt_failedToRetrieve)
             /\ repoCalls = <<>>
        /\ err # Nil => resp = Nil

\* C29: for a sports filter the validation accepts, the parameters List of eventsRepo
\* binds to the IN clause are the sport types as the validation checked them, without
\* the white space around them.
C29_TrimmedSportTypesBound ==
    (/\ pc = "returned" /\ op = "eventsRepo.List" /\ req # Nil
     /\ EventsFilter_Validate(req[1]) = Nil) =>
        repoCalls[1].args = [i \in 1..Len(req[1].SportTypes) |-> TrimSpace(req[1].SportTypes[i])]

\* what Validate returns for the filter when nothing else runs
ValidateAlone(f) ==
    IF "MeetingIds" \in DOMAIN f THEN RacesFilter_Validate(f) ELSE EventsFilter_Validate(f)

\* C25: no step of a validation changes the filter it validates, the trimming of the
\* sport types included; goroutines that validate one filter at the same time each
\* return what Validate returns for that filter alone; and the filter ListRaces and
\* ListEvents hand to the repository is the filter of the request, nil when that is nil.
C25_FilterNeverModified ==
    /\ [][sharedFilter' = sharedFilter]_vars
    /\ [](\A g \in Goroutines :
            (goroutines[g].call = "Validate" /\ goroutines[g].pc = "returned") =>
                goroutines[g].err = ValidateAlone(sharedFilter[1]))
    /\ []((pc = "returned" /\ op \in {"ListRaces", "ListEvents"}) =>
            \A k \in 1..Len(repoCalls) : repoCalls[k].arg = req[1].Filter)

\* two goroutines validate the sport types "a", " a ": one has returned the duplicate
\* error while the other has seen "a" and is about to look at " a "
C25_Witness ==
    /\ sharedFilter # Nil /\ "SportTypes" \in DOMAIN sharedFilter[1]
    /\ sharedFilter[1].SportTypes = << <<"a">>, <<" ", "a", " ">> >>
    /\ goroutines[1].pc = "returned"
    /\ Contains(ErrorText(goroutines[1].err), Txt_duplicate)
    /\ goroutines[2].pc = "range" /\ goroutines[2].i = 2 /\ goroutines[2].seen = {<<"a">>}

\* C30: when seed has returned an error in a repository, every call of Init on that
\* repository that has returned, the one that ran seed or any other, returned an error.
C30_InitReportsSeedFailure ==
    \A g \in Goroutines :
        (/\ goroutines[g].call = "Init" /\ goroutines[g].pc = "returned"
         /\ seedErr[goroutines[g].repo] # Nil) => goroutines[g].err # Nil
====
